---- MODULE Spec2Model ----
(***************************************************************************)
(* A model of the ERCOT LMP ingestion core: the SQLite archive writers     *)
(* (src/src/sqlite_archive.py), the InfluxDB mirror writer                 *)
(* (src/src/influxdb_writer.py), the RTM API scraper run with its          *)
(* checkpoint marker file (src/src/scraper_rtm_lmp.py) and the ERCOT API   *)
(* client's retry loop (src/src/ercot_client.py).                          *)
(*                                                                         *)
(* Instants are whole seconds counted from a base instant that lies on an  *)
(* hour boundary.  An ISO-8601 text is a record [k, s]: k tells whether    *)
(* the text is absent ("none"), unparseable ("bad"), without an offset     *)
(* ("naive") or with the offset +00:00 ("aware"); s is its instant.        *)
(* A JSON scalar is a record [k, n]: a number n ("num"), a non-numeric     *)
(* text ("str") or null ("none").                                          *)
(***************************************************************************)
EXTENDS Integers, Sequences, FiniteSets, TLC

VARIABLES
    upstream,         \* the pages the upstream has served to the two overlapping runs
    writer,           \* one call of _write_points_with_rate_limit: its position
    runs,             \* two RTM API runs that overlap: run number -> its position
    rtm_lmp_api,      \* archive table rtm_lmp_api: a bag of rows (row -> copies)
    rtm_lmp_cdr,      \* archive table rtm_lmp_cdr
    dam_lmp,          \* archive table dam_lmp
    mirror_rtm_lmp,   \* mirror measurement rtm_lmp: a set of points
    marker,           \* logs/api_rtm_last_timestamp.txt: an ISO text, or absent
    feed,             \* the records the upstream RTM feed can serve
    run,              \* the RTM API scraper run: its position and its locals
    client,           \* the ERCOT client: its token and the make_api_call in progress
    mirror_dam_lmp,   \* mirror measurement dam_lmp: a set of points
    dam_run,          \* the DAM scraper run: its position and its locals
    conv,             \* the last conversion of one raw record: input and stored rows
    rt_run,           \* the realtime (CDR) scraper run: its position and its locals
    mirror_rtm_lmp_realtime,  \* mirror measurement rtm_lmp_realtime: a set of points
    parser            \* an RTMLMPParser: its fields, and the table rows fed to it

----------------------------------------------------------------------------
(* Bounds of the model *)

MaxBatchLen == 2      \* records in one batch given to an archive writer
MaxPageLen == 2       \* records in one page of the upstream feed
MaxPages == 2         \* totalPages the upstream reports
MaxScriptLen == 4     \* answers the upstream source gives before it repeats its last one

----------------------------------------------------------------------------
(* Values *)

None == [k |-> "none", n |-> 0]
Num(x) == [k |-> "num", n |-> x]
BadStr == [k |-> "str", n |-> 0]

NoTs == [k |-> "none", s |-> 0]
BadTs == [k |-> "bad", s |-> 0]
Naive(t) == [k |-> "naive", s |-> t]
Aware(t) == [k |-> "aware", s |-> t]

\* a settlement point that is null (a key that is present and holds None)
NullSp == "<null>"

\* Python truthiness of a JSON scalar: None and 0 are falsy, a non-empty text is truthy
Truthy(v) == (v.k = "num" /\ v.n # 0) \/ v.k = "str"

\* Python's "a or b"
Or(a, b) == IF Truthy(a) THEN a ELSE b

TsTruthy(ts) == ts.k # "none"
OrTs(a, b) == IF TsTruthy(a) THEN a ELSE b

SpTruthy(sp) == sp # "" /\ sp # NullSp
OrSp(a, b) == IF SpTruthy(a) THEN a ELSE b

\* float(v or 0): the set holding the number, empty when float() raises
FloatOr0(v) == LET x == Or(v, Num(0)) IN IF x.k = "num" THEN {x.n} ELSE {}

\* datetime.fromisoformat(text.replace("Z", "+00:00")): empty when it raises
FromIso(ts) == IF ts.k \in {"naive", "aware"} THEN {ts} ELSE {}

\* a flooring that drops the seconds and keeps the minute
FloorMinute(ts) == [ts EXCEPT !.s = ts.s - (ts.s % 60)]

\* timestamp.replace(second=0, microsecond=0), then minute = (minute // 5) * 5
Floor5(ts) ==
    LET noSec == ts.s - (ts.s % 60)
        minute == (noSec \div 60) % 60
        floored == (minute \div 5) * 5
    IN  [ts EXCEPT !.s = noSec - (minute - floored) * 60]

\* an instant of the base day, from its clock reading
Clock(h, m, sec) == h * 3600 + m * 60 + sec

\* local midnight of day d (day 0 is the base day)
Midnight(d) == d * 86400

SeqsUpTo(S, n) == UNION {[1..k -> S] : k \in 0..n}

----------------------------------------------------------------------------
(* Archive tables.  A table is a bag of rows; PRIMARY KEY (time,           *)
(* settlement_point) with INSERT OR REPLACE removes the rows that hold the *)
(* key of the new row before the new row is stored.                        *)

EmptyTable == <<>>

SameKey(r1, r2) == r1.time = r2.time /\ r1.settlement_point = r2.settlement_point

InsertNoReplace(tbl, row) ==
    [r \in DOMAIN tbl \cup {row} |->
        IF r = row THEN (IF row \in DOMAIN tbl THEN tbl[row] + 1 ELSE 1) ELSE tbl[r]]

\* INSERT OR IGNORE: a row whose key is stored is dropped
InsertOrIgnore(tbl, row) ==
    IF \E r \in DOMAIN tbl : SameKey(r, row) THEN tbl
    ELSE [r \in DOMAIN tbl \cup {row} |-> IF r = row THEN 1 ELSE tbl[r]]

InsertOrReplace(tbl, row) ==
    LET keep == {r \in DOMAIN tbl : ~SameKey(r, row)}
    IN  [r \in keep \cup {row} |-> IF r = row THEN 1 ELSE tbl[r]]

Rows(tbl) == DOMAIN tbl

KeyStored(tbl, row) == \E r \in DOMAIN tbl : SameKey(r, row)

\* the state of a write before its first record: cursor = conn.cursor(); count = 0
Begin(tbl) == [tbl |-> tbl, count |-> 0, replaced |-> FALSE]

RECURSIVE SumCopies(_, _)
SumCopies(tbl, rows) ==
    IF rows = {} THEN 0
    ELSE LET r == CHOOSE x \in rows : TRUE
         IN  tbl[r] + SumCopies(tbl, rows \ {r})

\* SELECT COUNT(*)
get_record_count(tbl) == SumCopies(tbl, DOMAIN tbl)

\* a loop whose try encloses the whole loop: the first record that fails
\* ends the batch
RECURSIVE StoreRowsAborting(_, _)
StoreRowsAborting(st, rowsets) ==
    IF rowsets = <<>> THEN st
    ELSE LET h == Head(rowsets)
             row == CHOOSE r \in h : TRUE
         IN  IF h = {} THEN st
             ELSE StoreRowsAborting([tbl |-> InsertOrReplace(st.tbl, row),
                                     count |-> st.count + 1,
                                     replaced |-> st.replaced \/ KeyStored(st.tbl, row)],
                                    Tail(rowsets))

\* the loop body's tail: cursor.execute(INSERT OR REPLACE ...); count += 1,
\* for each record whose conversion gave a row (the others hit "continue")
RECURSIVE StoreRows(_, _)
StoreRows(st, rowsets) ==
    IF rowsets = <<>> THEN st
    ELSE LET h == Head(rowsets)
             row == CHOOSE r \in h : TRUE
             next == IF h = {} THEN st
                     ELSE [tbl |-> InsertOrReplace(st.tbl, row),
                           count |-> st.count + 1,
                           replaced |-> st.replaced \/ KeyStored(st.tbl, row)]
         IN  StoreRows(next, Tail(rowsets))

----------------------------------------------------------------------------
(* write_rtm_lmp_raw: raw ERCOT records into rtm_lmp_api *)

RtmRawRow(record) ==
    LET timestamp_str == OrTs(record.SCEDTimestamp, record.scedTimestamp)
        settlement_point == OrSp(OrSp(record.SettlementPoint, record.settlementPoint), "")
        lmp == FloatOr0(Or(Or(record.LMP, record.lmp), Num(0)))
        energy == FloatOr0(Or(Or(record.EnergyComponent, record.energyComponent), Num(0)))
        congestion == FloatOr0(Or(Or(record.CongestionComponent, record.congestionComponent), Num(0)))
        loss == FloatOr0(Or(Or(record.LossComponent, record.lossComponent), Num(0)))
    IN  IF ~TsTruthy(timestamp_str) THEN {}
        ELSE IF FromIso(timestamp_str) = {} THEN {}
        ELSE {[time |-> Floor5(timestamp_str),
               settlement_point |-> settlement_point,
               lmp |-> l, energy_component |-> e,
               congestion_component |-> c, loss_component |-> x] :
                 l \in lmp, e \in energy, c \in congestion, x \in loss}

write_rtm_lmp_raw(tbl, records) ==
    IF records = <<>> THEN Begin(tbl)
    ELSE StoreRows(Begin(tbl),
                   [i \in 1..Len(records) |-> RtmRawRow(records[i])])

----------------------------------------------------------------------------
(* write_dam_lmp_raw: raw ERCOT records into dam_lmp *)

NoHour == [k |-> "none", n |-> 0]
HourText(h) == [k |-> "hhmm", n |-> h]
HourTruthy(v) == v.k # "none"
OrHour(a, b) == IF HourTruthy(a) THEN a ELSE b

\* datetime.replace(hour=h): empty when h is no hour of a day (ValueError)
ReplaceHour(ts, h) ==
    IF h < 0 \/ h > 23 THEN {}
    ELSE {[ts EXCEPT !.s = ts.s - ((ts.s \div 3600) % 24) * 3600 + h * 3600]}

\* a conversion that stores the local time as it is
KeepLocal(ts) == ts

\* local_timestamp + timedelta(hours=6)
CentralToUtc(ts) == [ts EXCEPT !.s = ts.s + 6 * 3600]

DamRawRow(record) ==
    LET delivery_date == OrTs(record.DeliveryDate, record.deliveryDate)
        hour_ending == OrHour(record.HourEnding, record.hourEnding)
        settlement_point == OrSp(OrSp(record.SettlementPoint, record.settlementPoint), "")
        settlement_point_type ==
            OrSp(OrSp(record.SettlementPointType, record.settlementPointType), "")
        price == FloatOr0(Or(Or(record.SettlementPointPrice, record.settlementPointPrice), Num(0)))
    IN  IF ~TsTruthy(delivery_date) \/ ~HourTruthy(hour_ending) THEN {}
        ELSE {[time |-> CentralToUtc(local_timestamp),
               settlement_point |-> settlement_point,
               settlement_point_type |-> settlement_point_type,
               lmp |-> p] :
                 local_timestamp \in UNION {ReplaceHour(d, hour_ending.n - 1) :
                                               d \in FromIso(delivery_date)},
                 p \in price}

write_dam_lmp_raw(tbl, records) ==
    IF records = <<>> THEN Begin(tbl)
    ELSE StoreRows(Begin(tbl),
                   [i \in 1..Len(records) |-> DamRawRow(records[i])])

----------------------------------------------------------------------------
(* write_rtm_lmp_api, write_rtm_lmp_cdr, write_dam_lmp: records whose keys *)
(* are the column names.  The time is stored as given, never floored.      *)

\* time_val.isoformat() if hasattr(time_val, 'isoformat') else str(time_val):
\* a text is parsed first (empty when that raises), None is stored as "None"
StoredTime(time_val) ==
    IF time_val.k = "none" THEN {[k |-> "text", s |-> 0]}
    ELSE FromIso(time_val)

\* a NULL bound to a NOT NULL column raises sqlite3.IntegrityError
NotNull(sp) == IF sp = NullSp THEN {} ELSE {sp}

RtmApiRow(record) ==
    {[time |-> t, settlement_point |-> sp, lmp |-> l, energy_component |-> e,
      congestion_component |-> c, loss_component |-> x] :
        t \in StoredTime(record.time), sp \in NotNull(record.settlement_point),
        l \in FloatOr0(record.lmp), e \in FloatOr0(record.energy_component),
        c \in FloatOr0(record.congestion_component),
        x \in FloatOr0(record.loss_component)}

write_rtm_lmp_api(tbl, records) ==
    IF records = <<>> THEN Begin(tbl)
    ELSE StoreRows(Begin(tbl),
                   [i \in 1..Len(records) |-> RtmApiRow(records[i])])

RtmCdrRow(record) ==
    {[time |-> t, settlement_point |-> sp, lmp |-> l] :
        t \in StoredTime(record.time), sp \in NotNull(record.settlement_point),
        l \in FloatOr0(record.lmp)}

write_rtm_lmp_cdr(tbl, records) ==
    IF records = <<>> THEN Begin(tbl)
    ELSE StoreRows(Begin(tbl),
                   [i \in 1..Len(records) |-> RtmCdrRow(records[i])])

DamRow(record) ==
    {[time |-> t, settlement_point |-> sp,
      settlement_point_type |-> record.settlement_point_type, lmp |-> l] :
        t \in StoredTime(record.time), sp \in NotNull(record.settlement_point),
        l \in FloatOr0(record.lmp)}

write_dam_lmp(tbl, records) ==
    IF records = <<>> THEN Begin(tbl)
    ELSE StoreRows(Begin(tbl),
                   [i \in 1..Len(records) |-> DamRow(records[i])])

----------------------------------------------------------------------------
(* The records the writers are given *)

RtmRaw(ts, sp, lmp) ==
    [SCEDTimestamp |-> ts, scedTimestamp |-> NoTs,
     SettlementPoint |-> sp, settlementPoint |-> "",
     SettlementPointType |-> "", settlementPointType |-> "",
     LMP |-> lmp, lmp |-> None,
     EnergyComponent |-> None, energyComponent |-> None,
     CongestionComponent |-> None, congestionComponent |-> None,
     LossComponent |-> None, lossComponent |-> None]

RtmRawCamel(ts, sp, lmp, energy) ==
    [SCEDTimestamp |-> NoTs, scedTimestamp |-> ts,
     SettlementPoint |-> "", settlementPoint |-> sp,
     SettlementPointType |-> "", settlementPointType |-> "",
     LMP |-> None, lmp |-> lmp,
     EnergyComponent |-> None, energyComponent |-> energy,
     CongestionComponent |-> None, congestionComponent |-> None,
     LossComponent |-> None, lossComponent |-> None]

RtmRawRecords ==
    { RtmRaw(Naive(Clock(12, 3, 47)), "HB_NORTH", Num(25)),
      RtmRaw(Naive(Clock(12, 0, 0)), "HB_NORTH", Num(30)),
      RtmRawCamel(Aware(Clock(12, 7, 0)), "RN_NODE1", Num(0), Num(7)),
      RtmRaw(NoTs, "HB_NORTH", Num(25)),
      RtmRaw(Naive(Clock(12, 0, 0)), "LZ_WEST", BadStr) }

DamRaw(date, hour, sp, type, price) ==
    [DeliveryDate |-> date, deliveryDate |-> NoTs,
     HourEnding |-> hour, hourEnding |-> NoHour,
     SettlementPoint |-> sp, settlementPoint |-> "",
     SettlementPointType |-> type, settlementPointType |-> "",
     SettlementPointPrice |-> price, settlementPointPrice |-> None]

DamRawCamel(date, hour, sp, type, price) ==
    [DeliveryDate |-> NoTs, deliveryDate |-> date,
     HourEnding |-> NoHour, hourEnding |-> hour,
     SettlementPoint |-> "", settlementPoint |-> sp,
     SettlementPointType |-> "", settlementPointType |-> type,
     SettlementPointPrice |-> None, settlementPointPrice |-> price]

DamRawRecords ==
    { DamRaw(Naive(Midnight(0)), HourText(1), "HB_NORTH", "HU", Num(20)),
      DamRaw(Naive(Midnight(0)), HourText(1), "HB_NORTH", "HU", Num(22)),
      DamRawCamel(Naive(Midnight(0)), HourText(24), "RN_NODE1", "RN", Num(18)),
      DamRaw(Naive(Midnight(0)), HourText(25), "HB_NORTH", "HU", Num(20)),
      DamRaw(Naive(Midnight(0)), NoHour, "LZ_WEST", "LZ", Num(20)) }

Clean(time, sp, type, lmp) ==
    [time |-> time, settlement_point |-> sp, settlement_point_type |-> type,
     lmp |-> lmp, energy_component |-> None, congestion_component |-> None,
     loss_component |-> None]

RtmApiRecords ==
    { Clean(Naive(Clock(12, 0, 0)), "HB_NORTH", "", Num(26)),
      Clean(Naive(Clock(12, 3, 47)), "HB_NORTH", "", Num(25)),
      Clean(NoTs, "", "", None) }

RtmCdrRecords ==
    { Clean(Naive(Clock(12, 5, 0)), "HB_NORTH", "", Num(25)),
      Clean(Naive(Clock(12, 5, 0)), "HB_NORTH", "", Num(26)),
      Clean(Aware(Clock(12, 5, 0)), NullSp, "", Num(25)) }

DamRecords ==
    { Clean(Naive(Clock(6, 0, 0)), "HB_NORTH", NullSp, Num(21)),
      Clean(Naive(Clock(7, 0, 0)), "LZ_WEST", "LZ", None),
      Clean(BadTs, "HB_NORTH", "HU", Num(20)) }

RtmRawBatches == SeqsUpTo(RtmRawRecords, MaxBatchLen)
DamRawBatches == SeqsUpTo(DamRawRecords, MaxBatchLen)
RtmApiBatches == SeqsUpTo(RtmApiRecords, MaxBatchLen)
RtmCdrBatches == SeqsUpTo(RtmCdrRecords, MaxBatchLen)
DamBatches == SeqsUpTo(DamRecords, MaxBatchLen)

----------------------------------------------------------------------------
(* The mirror: InfluxDBWriter.  A point is identified by its measurement,  *)
(* its tags and its time; writing a point that exists replaces its fields. *)

BATCH_SIZE == 5000
MAX_RETRIES == 3

SamePoint(p, q) ==
    /\ p.time = q.time
    /\ p.settlement_point = q.settlement_point
    /\ p.settlement_point_type = q.settlement_point_type

\* self.client.write(record=batch), when it succeeds
ClientWrite(mirror, batch) ==
    {q \in mirror : \A i \in 1..Len(batch) : ~SamePoint(q, batch[i])}
      \cup {batch[i] : i \in {k \in 1..Len(batch) :
                \A j \in (k + 1)..Len(batch) : ~SamePoint(batch[k], batch[j])}}

\* the point of one record: empty when the record is skipped or raises.
\* Point.time(timestamp) stores the instant of the parsed timestamp, unfloored.
RtmPoint(record) ==
    LET timestamp_str == OrTs(record.SCEDTimestamp, record.scedTimestamp)
        settlement_point == OrSp(OrSp(record.SettlementPoint, record.settlementPoint), "")
        settlement_point_type ==
            OrSp(OrSp(record.SettlementPointType, record.settlementPointType), "")
        lmp == FloatOr0(Or(Or(record.LMP, record.lmp), Num(0)))
        energy == FloatOr0(Or(Or(record.EnergyComponent, record.energyComponent), Num(0)))
        congestion == FloatOr0(Or(Or(record.CongestionComponent, record.congestionComponent), Num(0)))
        loss == FloatOr0(Or(Or(record.LossComponent, record.lossComponent), Num(0)))
    IN  IF ~TsTruthy(timestamp_str) THEN {}
        ELSE {[time |-> timestamp.s,
               settlement_point |-> settlement_point,
               settlement_point_type |-> settlement_point_type,
               lmp |-> l, energy_component |-> e,
               congestion_component |-> c, loss_component |-> x] :
                 timestamp \in FromIso(timestamp_str),
                 l \in lmp, e \in energy, c \in congestion, x \in loss}

\* points.append(point) for each record that gave one, in order
RECURSIVE Points(_)
Points(pointsets) ==
    IF pointsets = <<>> THEN <<>>
    ELSE LET h == Head(pointsets)
         IN  (IF h = {} THEN <<>> ELSE <<CHOOSE pt \in h : TRUE>>)
               \o Points(Tail(pointsets))

\* a retry loop that raises when the last attempt is rate limited
RECURSIVE BatchOutcomeRaising(_, _)
BatchOutcomeRaising(outs, retry) ==
    IF retry > MAX_RETRIES THEN "raise"
    ELSE IF outs[retry] = "ok" THEN "ok"
    ELSE IF outs[retry] = "429" THEN
        (IF retry < MAX_RETRIES THEN BatchOutcomeRaising(outs, retry + 1) ELSE "raise")
    ELSE "raise"

\* the retry loop of one batch: the destination's answers to the attempts
\* are outs[1], outs[2], ..., each "ok", "429" or "err"
RECURSIVE BatchOutcome(_, _)
BatchOutcome(outs, retry) ==
    IF retry > MAX_RETRIES THEN "gave_up"
    ELSE IF outs[retry] = "ok" THEN "ok"
    ELSE IF outs[retry] = "429" THEN
        (IF retry < MAX_RETRIES THEN BatchOutcome(outs, retry + 1) ELSE "gave_up")
    ELSE "raise"

\* _write_points_with_rate_limit from the batch that starts at point i + 1;
\* answers[b] holds the destination's answers to the attempts of batch b
RECURSIVE WriteBatches(_, _, _, _, _)
WriteBatches(st, points, size, i, answers) ==
    IF i >= Len(points) THEN st
    ELSE LET upto == IF i + size < Len(points) THEN i + size ELSE Len(points)
             batch == SubSeq(points, i + 1, upto)
             batch_num == (i \div size) + 1
             outcome == BatchOutcome(answers[batch_num], 1)
         IN  IF outcome = "ok"
               THEN WriteBatches([st EXCEPT !.mirror = ClientWrite(st.mirror, batch),
                                            !.count = st.count + Len(batch)],
                                 points, size, i + size, answers)
             ELSE IF outcome = "gave_up" THEN st
             ELSE [st EXCEPT !.raised = TRUE]

write_points_with_rate_limit(mirror, points, size, answers) ==
    WriteBatches([mirror |-> mirror, count |-> 0, raised |-> FALSE],
                 points, size, 0, answers)

write_rtm_lmp_data(mirror, records, answers) ==
    LET points == Points([i \in 1..Len(records) |-> RtmPoint(records[i])])
    IN  IF records = <<>> \/ points = <<>>
          THEN [mirror |-> mirror, count |-> 0, raised |-> FALSE]
          ELSE write_points_with_rate_limit(mirror, points, BATCH_SIZE, answers)

Answers == {"ok", "429", "err"}

\* the destination's answers to the attempts the retry loop makes for one
\* batch: rate limits up to the answer that ends the loop, which is the
\* first answer that is no rate limit or the answer to attempt MAX_RETRIES
AttemptScripts ==
    {outs \in UNION {[1..n -> Answers] : n \in 1..MAX_RETRIES} :
        /\ \A t \in 1..(Len(outs) - 1) : outs[t] = "429"
        /\ outs[Len(outs)] # "429" \/ Len(outs) = MAX_RETRIES}

\* a destination that accepts every batch at once
Accepting == [b \in 1..1 |-> <<"ok">>]

\* the destination's answers to the batch of a page: no write happens for
\* a page that gives no point
AnswersFor(points) ==
    IF points = <<>> THEN {Accepting} ELSE [1..1 -> AttemptScripts]

----------------------------------------------------------------------------
(* The RTM API scraper: scraper_rtm_lmp.py main().  One run is a process   *)
(* that resolves its start date from the marker file, pulls the pages of   *)
(* the feed one by one, writes each to the archive and (filtered) to the   *)
(* mirror, and saves the marker after the last page.  Runs are sequential. *)

INFLUXDB_SETTLEMENT_POINTS ==
    {"HB_BUSAVG", "HB_HOUSTON", "HB_HUBAVG", "HB_NORTH", "HB_PAN", "HB_SOUTH", "HB_WEST",
     "LZ_AEN", "LZ_CPS", "LZ_HOUSTON", "LZ_LCRA", "LZ_NORTH", "LZ_RAYBN", "LZ_SOUTH", "LZ_WEST"}

\* datetime.utcnow() of a run
UtcNow == Clock(18, 0, 0)

\* an upstream whose prices are numbers
NumericFeed ==
    { RtmRaw(Naive(Clock(12, 3, 47)), "HB_NORTH", Num(25)),
      RtmRawCamel(Aware(Clock(12, 10, 0)), "RN_NODE1", Num(30), Num(7)),
      RtmRaw(NoTs, "HB_NORTH", Num(25)) }

\* an upstream that may also send a price that is a text and no number
TextFeed ==
    NumericFeed \cup { RtmRaw(Naive(Clock(12, 0, 0)), "LZ_WEST", BadStr) }

RunPages == SeqsUpTo(feed, MaxPageLen)

\* no run has started yet
Idle ==
    [pc |-> "idle", start_date |-> NoTs, latest_timestamp |-> NoTs,
     total_sqlite |-> 0, total_influx |-> 0, page |-> 0, pages_to_fetch |-> 0,
     page_data |-> <<>>, exit_code |-> 0,
     \* history: the marker when the run started; the page at which the run
     \* failed and the step that failed; the latest timestamp of the pages
     \* whose processing had finished when the run failed
     marker0 |-> NoTs, failed_page |-> 0, failed_in |-> "", committed_latest |-> NoTs,
     \* history of the generator: totalPages of the first response, the page
     \* numbers requested and the page numbers yielded, in order, and the
     \* number of pages whose archive and mirror writes have finished
     total_pages |-> 0, requested |-> <<>>, yielded |-> <<>>, processed |-> 0,
     \* history of the destination: the number of pages whose mirror batch was
     \* answered by a rate limit at every attempt
     rate_limited |-> 0,
     \* history of the output: the totals of the "Completed!" line, once printed
     reported |-> <<>>]

\* get_api_last_timestamp: the parsed marker, None when absent or unreadable
get_api_last_timestamp(file) ==
    IF file.k \in {"naive", "aware"} THEN file ELSE NoTs

\* save_api_last_timestamp: write_text(timestamp.isoformat())
save_api_last_timestamp(timestamp) == timestamp

\* lines 97-106: the latest timestamp of the records seen so far
RECURSIVE TrackLatest(_, _)
TrackLatest(latest, records) ==
    IF records = <<>> THEN latest
    ELSE LET record == Head(records)
             ts_str == OrTs(record.SCEDTimestamp, record.scedTimestamp)
             parsed == IF TsTruthy(ts_str) THEN FromIso(ts_str) ELSE {}
             ts == Naive((CHOOSE t \in parsed : TRUE).s)
             next == IF parsed = {} THEN latest
                     ELSE IF latest = NoTs \/ ts.s > latest.s THEN ts
                     ELSE latest
         IN  TrackLatest(next, Tail(records))

\* lines 113-116: the records of the allow-listed settlement points
\* a run that passes the whole page to the mirror
FilterNothing(records) == records

FilterForInflux(records) ==
    SelectSeq(records,
              LAMBDA r : (IF SpTruthy(r.SettlementPoint) THEN r.SettlementPoint
                          ELSE r.settlementPoint) \in INFLUXDB_SETTLEMENT_POINTS)

\* an except clause that reports the error and returns 0
FailQuiet(r, atPage, step, committed) ==
    [r EXCEPT !.pc = "exited", !.exit_code = 0, !.page_data = <<>>,
              !.failed_page = atPage, !.failed_in = step,
              !.committed_latest = committed]

\* the except clause of main(): the run ends with status 1
Fail(r, atPage, step, committed) ==
    [r EXCEPT !.pc = "exited", !.exit_code = 1, !.page_data = <<>>,
              !.failed_page = atPage, !.failed_in = step,
              !.committed_latest = committed]

\* lines 63-91: the clients are created, the start date is resolved
RunStart ==
    /\ run.pc \in {"idle", "exited"}
    /\ LET last_timestamp == get_api_last_timestamp(marker)
           fresh == [Idle EXCEPT !.marker0 = marker]
       IN  \/ run' = [fresh EXCEPT
                        !.pc = "fetch",
                        !.start_date = IF TsTruthy(last_timestamp) THEN last_timestamp
                                       ELSE Naive(UtcNow - 7 * 86400),
                        !.page = 1]
           \* a create_*_from_env() raises (a missing environment variable)
           \/ run' = Fail(fresh, 0, "init", NoTs)
    /\ UNCHANGED <<rtm_lmp_api, rtm_lmp_cdr, dam_lmp, mirror_rtm_lmp, marker, feed, runs, upstream, writer, mirror_dam_lmp, dam_run, conv, client,
                   rt_run, mirror_rtm_lmp_realtime, parser>>

\* max_pages of the callers: fetch_lmp_by_settlement_point(start_date)
NoMaxPages == 0

\* line 281: _meta.totalPages is read in the first response only
TotalPagesOf(r) == IF r.page = 1 THEN 0..MaxPages ELSE {r.total_pages}

\* a generator that stops one page short
PagesButLast(max_pages, total_pages) ==
    IF total_pages > 1 THEN total_pages - 1 ELSE total_pages

\* line 284: min(max_pages, total_pages) if max_pages else total_pages
PagesToFetch(max_pages, total_pages) ==
    IF max_pages # NoMaxPages
    THEN (IF max_pages < total_pages THEN max_pages ELSE total_pages)
    ELSE total_pages

\* the generator has asked for page run.page
Requested(r) == [r EXCEPT !.requested = Append(@, r.page)]

\* lines 280-298: the response of page run.page has come: the first one
\* tells how many pages to fetch, and the page is yielded
Yielded(r, data, total_pages) ==
    [Requested(r) EXCEPT
        !.pc = "process", !.page_data = data,
        !.yielded = Append(@, r.page),
        !.total_pages = IF r.page = 1 THEN total_pages ELSE @,
        !.pages_to_fetch = IF r.page = 1 THEN PagesToFetch(NoMaxPages, total_pages)
                           ELSE @]

\* FetchPage with a generator that asks for the next page as soon as a page
\* has come, before the page is consumed
FetchPageEager ==
    /\ run.pc = "fetch"
    /\ \/ run' = Fail(Requested(run), run.page, "fetch", run.latest_timestamp)
       \/ \E data \in RunPages, total_pages \in TotalPagesOf(run) :
            LET y == Yielded(run, data, total_pages)
            IN  run' = IF run.page < y.pages_to_fetch
                         THEN [y EXCEPT !.requested = Append(@, run.page + 1)]
                         ELSE y
    /\ UNCHANGED <<rtm_lmp_api, rtm_lmp_cdr, dam_lmp, mirror_rtm_lmp, marker, feed, runs, upstream, writer, mirror_dam_lmp, dam_run, conv, client,
                   rt_run, mirror_rtm_lmp_realtime, parser>>

\* FetchPage with a run that saves its start date when the fetch fails
FetchPageSavingOnFailure ==
    /\ run.pc = "fetch"
    /\ \/ /\ run' = Fail(Requested(run), run.page, "fetch", run.latest_timestamp)
          /\ marker' = save_api_last_timestamp(run.start_date)
       \/ /\ \E data \in RunPages, total_pages \in TotalPagesOf(run) :
               run' = Yielded(run, data, total_pages)
          /\ UNCHANGED marker
    /\ UNCHANGED <<rtm_lmp_api, rtm_lmp_cdr, dam_lmp, mirror_rtm_lmp, feed, runs, upstream, writer, mirror_dam_lmp, dam_run, conv, client,
                   rt_run, mirror_rtm_lmp_realtime, parser>>

\* fetch_paginated_data: the request of page run.page.  make_api_call either
\* raises (authentication, retries exhausted) or returns the page; the first
\* response tells totalPages.
FetchPage ==
    /\ run.pc = "fetch"
    /\ \/ run' = Fail(Requested(run), run.page, "fetch", run.latest_timestamp)
       \/ \E data \in RunPages, total_pages \in TotalPagesOf(run) :
            run' = Yielded(run, data, total_pages)
    /\ UNCHANGED <<rtm_lmp_api, rtm_lmp_cdr, dam_lmp, mirror_rtm_lmp, marker, feed, runs, upstream, writer, mirror_dam_lmp, dam_run, conv, client,
                   rt_run, mirror_rtm_lmp_realtime, parser>>

\* the destination answers every attempt of the batch by a rate limit
Exhausted(outs) ==
    Len(outs) = MAX_RETRIES /\ \A retry \in 1..MAX_RETRIES : outs[retry] = "429"

\* the body of the for loop, lines 94-121, then the generator's next step
ProcessPage ==
    /\ run.pc = "process"
    /\ LET page_data == run.page_data
           latest == TrackLatest(run.latest_timestamp, page_data)
           sqlite == write_rtm_lmp_raw(rtm_lmp_api, page_data)
           filtered_data == FilterForInflux(page_data)
           points == Points([i \in 1..Len(filtered_data) |-> RtmPoint(filtered_data[i])])
       IN  \E answers \in AnswersFor(points) :
             LET influx == IF filtered_data # <<>>
                             THEN write_rtm_lmp_data(mirror_rtm_lmp, filtered_data, answers)
                             ELSE [mirror |-> mirror_rtm_lmp, count |-> 0, raised |-> FALSE]
                 after == [run EXCEPT
                             !.latest_timestamp = latest,
                             !.total_sqlite = run.total_sqlite + sqlite.count,
                             !.total_influx = run.total_influx + influx.count,
                             !.page_data = <<>>,
                             !.processed = IF influx.raised THEN @ ELSE @ + 1,
                             !.rate_limited =
                                 IF points # <<>> /\ Exhausted(answers[1])
                                   THEN @ + 1 ELSE @]
             IN  /\ rtm_lmp_api' = sqlite.tbl
                 /\ mirror_rtm_lmp' = influx.mirror
                 /\ run' = IF influx.raised
                             THEN Fail(after, run.page, "write", run.latest_timestamp)
                           ELSE IF run.page < run.pages_to_fetch
                             THEN [after EXCEPT !.pc = "fetch", !.page = run.page + 1]
                           ELSE [after EXCEPT !.pc = "save"]
    /\ UNCHANGED <<rtm_lmp_cdr, dam_lmp, marker, feed, runs, upstream, writer, mirror_dam_lmp, dam_run, conv, client,
                   rt_run, mirror_rtm_lmp_realtime, parser>>

\* lines 123-134: the marker is saved when a timestamp was seen; status 0
Finish ==
    /\ run.pc = "save"
    /\ marker' = IF TsTruthy(run.latest_timestamp)
                   THEN save_api_last_timestamp(run.latest_timestamp)
                   ELSE marker
    /\ run' = [run EXCEPT !.pc = "exited", !.exit_code = 0,
                         !.reported = <<run.total_sqlite, run.total_influx>>]
    /\ UNCHANGED <<rtm_lmp_api, rtm_lmp_cdr, dam_lmp, mirror_rtm_lmp, feed, runs, upstream, writer, mirror_dam_lmp, dam_run, conv, client,
                   rt_run, mirror_rtm_lmp_realtime, parser>>

----------------------------------------------------------------------------------------------------------------------------------------
(* Two RTM API runs that overlap in time: two processes running main(),    *)
(* each with its own connection to the archive file, interleaved at the    *)
(* granularity of a page.  The upstream serves the same page k to both; it *)
(* may have grown between their first requests, so that the two may be     *)
(* told different totals.                                                  *)

MaxPairPageLen == 1

\* the records the upstream serves to the two runs: two SCED intervals of
\* one settlement point that fall into the same 5-minute slot
PairFeed ==
    { RtmRaw(Naive(Clock(12, 3, 47)), "HB_NORTH", Num(25)),
      RtmRaw(Naive(Clock(12, 0, 0)), "HB_NORTH", Num(30)) }

PairPages == SeqsUpTo(PairFeed, MaxPairPageLen)

\* the destination accepts the batch of a page, or answers it with an error
\* that is no rate limit
PairAnswers ==
    {[b \in 1..1 |-> <<a>>] : a \in {"ok", "err"}}

\* a process that has not started
PairIdle ==
    [pc |-> "idle", start_date |-> NoTs, latest_timestamp |-> NoTs,
     page |-> 0, pages_to_fetch |-> 0, page_data |-> <<>>, exit_code |-> 0]

NoRuns == [i \in 1..2 |-> PairIdle]

\* lines 63-91 of the run i
PairStart(i) ==
    /\ runs[i].pc = "idle"
    /\ LET last_timestamp == get_api_last_timestamp(marker)
       IN  runs' = [runs EXCEPT ![i] =
                      [@ EXCEPT !.pc = "fetch", !.page = 1,
                                !.start_date = IF TsTruthy(last_timestamp)
                                                 THEN last_timestamp
                                                 ELSE Naive(UtcNow - 7 * 86400)]]
    /\ UNCHANGED <<rtm_lmp_api, rtm_lmp_cdr, dam_lmp, mirror_rtm_lmp, marker, feed,
                   upstream, writer, mirror_dam_lmp, dam_run, conv, run, client,
                   rt_run, mirror_rtm_lmp_realtime, parser>>

\* the page k as the upstream serves it: the page served before, or a page
\* served for the first time
Served(k) ==
    IF k <= Len(upstream) THEN {upstream[k]} ELSE PairPages

\* the generator of the run i fetches its next page: the call raises, or the
\* page is yielded
PairFetchPage(i) ==
    /\ runs[i].pc = "fetch"
    /\ \/ /\ runs' = [runs EXCEPT ![i] = [@ EXCEPT !.pc = "exited", !.exit_code = 1]]
          /\ UNCHANGED upstream
       \/ \E data \in Served(runs[i].page),
             total_pages \in (IF runs[i].page = 1 THEN 0..MaxPages ELSE {0}) :
            /\ upstream' = IF runs[i].page <= Len(upstream) THEN upstream
                           ELSE Append(upstream, data)
            /\ runs' = [runs EXCEPT ![i] =
                          [@ EXCEPT !.pc = "process", !.page_data = data,
                                    !.pages_to_fetch =
                                        IF runs[i].page = 1
                                          THEN PagesToFetch(NoMaxPages, total_pages)
                                          ELSE @]]
    /\ UNCHANGED <<rtm_lmp_api, rtm_lmp_cdr, dam_lmp, mirror_rtm_lmp, marker, feed,
                   writer, mirror_dam_lmp, dam_run, conv, run, client,
                   rt_run, mirror_rtm_lmp_realtime, parser>>

\* the body of the for loop of the run i: one transaction on the archive,
\* then the mirror write
PairProcessPage(i) ==
    /\ runs[i].pc = "process"
    /\ \E answers \in PairAnswers :
         LET r == runs[i]
             page_data == r.page_data
             sqlite == write_rtm_lmp_raw(rtm_lmp_api, page_data)
             filtered_data == FilterForInflux(page_data)
             influx == IF filtered_data # <<>>
                         THEN write_rtm_lmp_data(mirror_rtm_lmp, filtered_data, answers)
                         ELSE [mirror |-> mirror_rtm_lmp, count |-> 0, raised |-> FALSE]
             after == [r EXCEPT !.latest_timestamp = TrackLatest(@, page_data),
                                !.page_data = <<>>]
         IN  /\ rtm_lmp_api' = sqlite.tbl
             /\ mirror_rtm_lmp' = influx.mirror
             /\ runs' = [runs EXCEPT ![i] =
                           IF influx.raised
                             THEN [after EXCEPT !.pc = "exited", !.exit_code = 1]
                           ELSE IF r.page < r.pages_to_fetch
                             THEN [after EXCEPT !.pc = "fetch", !.page = r.page + 1]
                           ELSE [after EXCEPT !.pc = "save"]]
    /\ UNCHANGED <<rtm_lmp_cdr, dam_lmp, marker, feed, upstream, writer,
                   mirror_dam_lmp, dam_run, conv, run, client,
                   rt_run, mirror_rtm_lmp_realtime, parser>>

\* lines 123-134 of the run i
PairFinish(i) ==
    /\ runs[i].pc = "save"
    /\ marker' = IF TsTruthy(runs[i].latest_timestamp)
                   THEN save_api_last_timestamp(runs[i].latest_timestamp)
                   ELSE marker
    /\ runs' = [runs EXCEPT ![i] = [@ EXCEPT !.pc = "exited", !.exit_code = 0]]
    /\ UNCHANGED <<rtm_lmp_api, rtm_lmp_cdr, dam_lmp, mirror_rtm_lmp, feed,
                   upstream, writer, mirror_dam_lmp, dam_run, conv, run, client,
                   rt_run, mirror_rtm_lmp_realtime, parser>>

----------------------------------------------------------------------------
(* One call of InfluxDBWriter._write_points_with_rate_limit, attempt by     *)
(* attempt: the destination answers each write of a batch as it pleases    *)

MaxBatches == 3

BATCH_DELAY_SECONDS == 1
RETRY_DELAY_SECONDS == 60

\* len(points) of a call: the batches are full or not, the last one or not
PointCounts ==
    {k * BATCH_SIZE + r : k \in 0..(MaxBatches - 1), r \in {1, BATCH_SIZE}}

\* no call is running.  i and retry are the loop variables; attempts counts
\* the writes of the batch at i; sleeps is the history of the waits; last
\* is the destination's answer to the last write
NoCall ==
    [pc |-> "idle", total_points |-> 0, i |-> 0, retry |-> 0, total_written |-> 0,
     attempts |-> 0, sleeps |-> <<>>, last |-> "", batches |-> <<>>]

\* a loop that also waits after the last attempt
RetryAgainOnceMore(retry) == retry < MAX_RETRIES

\* line 143: a rate-limited attempt is followed by another one
RetryAgain(retry) == retry < MAX_RETRIES - 1

\* lines 121-126: the call starts at the first batch
WriterCall ==
    /\ writer.pc \in {"idle", "returned", "raised"}
    /\ \E total_points \in PointCounts :
         writer' = [NoCall EXCEPT !.pc = "attempt", !.total_points = total_points]
    /\ UNCHANGED <<rtm_lmp_api, rtm_lmp_cdr, dam_lmp, mirror_rtm_lmp, marker, feed, runs,
                   upstream, mirror_dam_lmp, dam_run, conv, run, client,
                   rt_run, mirror_rtm_lmp_realtime, parser>>

\* lines 152-157: the batch at i is over: the wait before the next batch, or
\* the return after the last
BatchOver(w) ==
    IF w.i + BATCH_SIZE < w.total_points
      THEN [w EXCEPT !.sleeps = Append(@, BATCH_DELAY_SECONDS),
                     !.i = w.i + BATCH_SIZE, !.retry = 0, !.attempts = 0]
      ELSE [w EXCEPT !.pc = "returned"]

\* a count that takes every batch for a full one
BatchLenFull(w) == BATCH_SIZE

\* line 129: len(points[i:i + BATCH_SIZE])
BatchLen(w) ==
    IF w.i + BATCH_SIZE < w.total_points THEN BATCH_SIZE ELSE w.total_points - w.i

\* lines 133-150: one write of the batch at i, and what follows its answer
WriterAttempt ==
    /\ writer.pc = "attempt"
    /\ \E answer \in Answers :
         LET w == [writer EXCEPT !.attempts = @ + 1, !.last = answer]
         IN  writer' =
               IF answer = "ok"
                 THEN BatchOver([w EXCEPT !.total_written = @ + BatchLen(writer),
                                          !.batches = Append(@, "written")])
               ELSE IF answer = "429"
                 THEN (IF RetryAgain(writer.retry)
                         THEN LET slept == [w EXCEPT !.sleeps = Append(@, RETRY_DELAY_SECONDS),
                                                     !.retry = @ + 1]
                              IN  IF slept.retry < MAX_RETRIES THEN slept
                                  ELSE BatchOver([slept EXCEPT !.batches = Append(@, "abandoned")])
                         ELSE [w EXCEPT !.pc = "returned",
                                        !.batches = Append(@, "abandoned")])
               ELSE [w EXCEPT !.pc = "raised"]
    /\ UNCHANGED <<rtm_lmp_api, rtm_lmp_cdr, dam_lmp, mirror_rtm_lmp, marker, feed, runs,
                   upstream, mirror_dam_lmp, dam_run, conv, run, client,
                   rt_run, mirror_rtm_lmp_realtime, parser>>

----------------
(* The ERCOT client: make_api_call over a session with a retry adapter *)

DEFAULT_MAX_RETRIES == 3
DEFAULT_INITIAL_DELAY_MS == 1000
max_retries == DEFAULT_MAX_RETRIES
backoff_factor == 1

\* what the source can answer to one HTTP request: a status, or no answer at
\* all (a connection or read error); "404" stands for every error status that
\* is neither 401 nor in the adapter's list
Answers429 == {"429"}
status_forcelist == Answers429 \cup {"500"}
SourceAnswers == {"200", "401", "404", "neterr"} \cup status_forcelist

\* the source answers its script in order and then repeats the last answer
Scripts == SeqsUpTo(SourceAnswers, MaxScriptLen) \ {<<>>}

\* the source that follows no script: it may give any answer to any request
Unscripted == <<>>

Answer(script, n) == script[IF n <= Len(script) THEN n ELSE Len(script)]

IdleClient ==
    [pc |-> "idle", script |-> <<>>,
     \* self.token, and self.token_expiry against time.time(): unset, ahead
     \* of the clock ("future") or reached by it ("past")
     token |-> "none", token_expiry |-> "none",
     \* the Authorization header of the call in progress: not built yet, the
     \* token the client holds ("held"), or a token it has since discarded
     bearer |-> "none",
     retries |-> 0, delay |-> 0,
     \* history of the call in progress: the token_expiry it found at its
     \* start, what the credential exchange of its get_token gave ("none"
     \* when get_token was not called), and the 401 answers it has received
     found |-> "none", exchange |-> "none", rejected |-> 0,
     \* history of the call in progress: the HTTP requests sent, the seconds
     \* slept (by the adapter and by make_api_call alike, in order), and the
     \* calls of session.get
     requests |-> 0, sleeps |-> <<>>, gets |-> 0]

\* urllib3 Retry.get_backoff_time: nothing after the first error in a row,
\* then backoff_factor * 2 ^ (errors - 1)
Backoff(errors) ==
    IF errors <= 1 THEN 0 ELSE backoff_factor * 2 ^ (errors - 1)

Slept(sleeps, seconds) ==
    IF seconds > 0 THEN Append(sleeps, seconds) ELSE sleeps

\* session.get through HTTPAdapter(max_retries = Retry(total, backoff_factor,
\* status_forcelist)): a listed status or a network error is retried inside
\* the adapter until total is used up, then raised; any other response is
\* returned.  sent is the number of HTTP requests of the call so far.
RECURSIVE SessionGet(_, _, _, _, _)
SessionGet(script, sent, total, errors, sleeps) ==
    LET answer == Answer(script, sent + 1)
    IN  IF answer \in status_forcelist \cup {"neterr"}
        THEN IF total = 0
             THEN [outcome |-> "RequestException", sent |-> sent + 1, sleeps |-> sleeps]
             ELSE SessionGet(script, sent + 1, total - 1, errors + 1,
                             Slept(sleeps, Backoff(errors + 1)))
        ELSE [outcome |-> answer, sent |-> sent + 1, sleeps |-> sleeps]

\* session.get against the unscripted source: every result it can have
RECURSIVE SessionGetAny(_, _, _, _)
SessionGetAny(sent, total, errors, sleeps) ==
    LET After(answer) ==
          IF answer \in status_forcelist \cup {"neterr"}
          THEN IF total = 0
               THEN {[outcome |-> "RequestException", sent |-> sent + 1,
                      sleeps |-> sleeps]}
               ELSE SessionGetAny(sent + 1, total - 1, errors + 1,
                                  Slept(sleeps, Backoff(errors + 1)))
          ELSE {[outcome |-> answer, sent |-> sent + 1, sleeps |-> sleeps]}
    IN  UNION {After(answer) : answer \in SourceAnswers}

\* what the credential exchange of get_token can give: a response with an
\* id_token, a response without one, or a failure (an error status, a
\* network error)
Exchanges == {"id_token", "no_id_token", "failed"}

\* a get_token that drops the held token before the exchange
GetTokenClearing(c, exchange) ==
    IF exchange = "id_token"
    THEN [c |-> [c EXCEPT !.token = "held", !.token_expiry = "future",
                          !.exchange = exchange],
          raised |-> FALSE]
    ELSE [c |-> [c EXCEPT !.token = "none", !.token_expiry = "none",
                          !.exchange = exchange],
          raised |-> TRUE]

\* get_token: the token and its expiry are assigned only after the id_token
\* was found; every failure is raised as RuntimeError
get_token(c, exchange) ==
    IF exchange = "id_token"
    THEN [c |-> [c EXCEPT !.token = "held", !.token_expiry = "future",
                          !.exchange = exchange],
          raised |-> FALSE]
    ELSE [c |-> [c EXCEPT !.exchange = exchange], raised |-> TRUE]

\* a refresh that asks for a token only when none is held
RefreshIfAbsent(c, exchange) ==
    IF c.token = "none" THEN get_token(c, exchange)
    ELSE [c |-> c, raised |-> FALSE]

refresh_token_if_needed(c, exchange) ==
    IF c.token = "none" \/ c.token_expiry = "none" \/ c.token_expiry = "past"
    THEN get_token(c, exchange)
    ELSE [c |-> c, raised |-> FALSE]

get_headers(c, exchange) ==
    LET r == refresh_token_if_needed(c, exchange)
    IN  IF r.raised THEN r
        ELSE [c |-> [r.c EXCEPT !.bearer = "held"], raised |-> FALSE]

\* the clock reaches the expiry of the token between two calls
TokenExpires ==
    /\ client.pc = "idle"
    /\ client.token_expiry = "future"
    /\ client' = [client EXCEPT !.token_expiry = "past"]
    /\ UNCHANGED <<rtm_lmp_api, rtm_lmp_cdr, dam_lmp, mirror_rtm_lmp, marker, feed, runs, upstream, writer, mirror_dam_lmp, dam_run, conv, run,
                   rt_run, mirror_rtm_lmp_realtime, parser>>

\* lines 166-169: the headers are built once, before the loop (a token is
\* requested when none is held or the held one has expired), the counters
\* are reset
CallStart ==
    /\ client.pc = "idle"
    /\ \E script \in Scripts \cup {Unscripted}, exchange \in Exchanges :
          LET headers == get_headers([client EXCEPT !.found = client.token_expiry],
                                     exchange)
          IN  IF headers.raised
              THEN \* get_token raises RuntimeError before any request
                   client' = [headers.c EXCEPT !.pc = "raised"]
              ELSE client' = [headers.c EXCEPT
                                !.pc = "loop", !.script = script,
                                !.delay = DEFAULT_INITIAL_DELAY_MS \div 1000]
    /\ UNCHANGED <<rtm_lmp_api, rtm_lmp_cdr, dam_lmp, mirror_rtm_lmp, marker, feed, runs, upstream, writer, mirror_dam_lmp, dam_run, conv, run,
                   rt_run, mirror_rtm_lmp_realtime, parser>>

\* lines 191-192: self.token = None, self.token_expiry = None; the headers
\* built before the loop are not rebuilt and keep the token they were given
Discard(c) ==
    [c EXCEPT !.token = "none", !.token_expiry = "none",
              !.bearer = "discarded", !.rejected = @ + 1]

\* an except clause that retries without counting the retry
OnRequestExceptionUncounted(c) ==
    [c EXCEPT !.sleeps = Slept(@, c.delay), !.delay = @ * 2]

\* the except clause of lines 202-208
OnRequestException(c) ==
    IF c.retries >= max_retries
    THEN [c EXCEPT !.pc = "raised"]
    ELSE [c EXCEPT !.retries = @ + 1,
                   !.sleeps = Slept(@, c.delay),
                   !.delay = @ * 2]

\* lines 171-210: one turn of the while loop of make_api_call
CallAttempt ==
    /\ client.pc = "loop"
    /\ \E res \in (IF client.script = Unscripted
                    THEN SessionGetAny(client.requests, max_retries, 0, client.sleeps)
                    ELSE {SessionGet(client.script, client.requests, max_retries, 0,
                                     client.sleeps)}) :
       LET c == [client EXCEPT !.requests = res.sent, !.sleeps = res.sleeps,
                               !.gets = @ + 1]
       IN  client' =
             IF c.retries > max_retries
             THEN [client EXCEPT !.pc = "raised"]
             ELSE IF res.outcome = "429"
             THEN IF c.retries + 1 <= max_retries
                  THEN [c EXCEPT !.retries = @ + 1,
                                 !.sleeps = Slept(@, c.delay),
                                 !.delay = @ * 2]
                  ELSE [c EXCEPT !.retries = @ + 1, !.pc = "raised"]
             ELSE IF res.outcome = "401"
             THEN IF c.retries + 1 <= max_retries
                  THEN Discard([c EXCEPT !.retries = @ + 1])
                  ELSE Discard([c EXCEPT !.retries = @ + 1, !.pc = "raised"])
             ELSE IF res.outcome = "200"
             THEN [c EXCEPT !.pc = "returned"]
             ELSE \* raise_for_status raises, or session.get has raised
                  OnRequestException(c)
    /\ UNCHANGED <<rtm_lmp_api, rtm_lmp_cdr, dam_lmp, mirror_rtm_lmp, marker, feed, runs, upstream, writer, mirror_dam_lmp, dam_run, conv, run,
                   rt_run, mirror_rtm_lmp_realtime, parser>>

\* make_api_call has returned or raised: the client keeps its token only
CallDone ==
    /\ client.pc \in {"returned", "raised"}
    /\ client' = [IdleClient EXCEPT !.token = client.token,
                                    !.token_expiry = client.token_expiry]
    /\ UNCHANGED <<rtm_lmp_api, rtm_lmp_cdr, dam_lmp, mirror_rtm_lmp, marker, feed, runs, upstream, writer, mirror_dam_lmp, dam_run, conv, run,
                   rt_run, mirror_rtm_lmp_realtime, parser>>

----------------------------------------------------------------------------
(* The DAM scraper: scraper_dam_lmp.py main().  A run resolves its start   *)
(* date, pulls the pages of the feed one by one and writes each to the     *)
(* archive and (filtered) to the mirror.                                   *)

\* the point of one DAM record: empty when the record is skipped or raises.
\* The time is delivery date + (hour - 1) hours, as parsed.
DamPoint(record) ==
    LET delivery_date == OrTs(record.DeliveryDate, record.deliveryDate)
        hour_ending == OrHour(record.HourEnding, record.hourEnding)
        settlement_point == OrSp(OrSp(record.SettlementPoint, record.settlementPoint), "")
        settlement_point_type ==
            OrSp(OrSp(record.SettlementPointType, record.settlementPointType), "")
        price == FloatOr0(Or(Or(record.SettlementPointPrice, record.settlementPointPrice), Num(0)))
    IN  IF ~TsTruthy(delivery_date) \/ ~HourTruthy(hour_ending) THEN {}
        ELSE {[time |-> timestamp.s,
               settlement_point |-> settlement_point,
               settlement_point_type |-> settlement_point_type,
               lmp |-> p] :
                 timestamp \in UNION {ReplaceHour(d, hour_ending.n - 1) :
                                         d \in FromIso(delivery_date)},
                 p \in price}

write_dam_lmp_data(mirror, records, answers) ==
    LET points == Points([i \in 1..Len(records) |-> DamPoint(records[i])])
    IN  IF records = <<>> \/ points = <<>>
          THEN [mirror |-> mirror, count |-> 0, raised |-> FALSE]
          ELSE write_points_with_rate_limit(mirror, points, BATCH_SIZE, answers)

RECURSIVE MaxOf(_)
MaxOf(S) ==
    LET x == CHOOSE y \in S : TRUE
    IN  IF S = {x} THEN x
        ELSE LET m == MaxOf(S \ {x}) IN IF x > m THEN x ELSE m

\* SQLiteArchive.get_last_time: SELECT MAX(time), then fromisoformat, which
\* raises for a stored time that is no ISO text; None for an empty table
get_last_time(tbl) ==
    IF tbl = EmptyTable THEN [raised |-> FALSE, value |-> NoTs]
    ELSE IF \E r \in Rows(tbl) : r.time.k = "text"
           THEN [raised |-> TRUE, value |-> NoTs]
    ELSE [raised |-> FALSE,
          value |-> Naive(MaxOf({r.time.s : r \in Rows(tbl)}))]

\* InfluxDBWriter.get_last_timestamp: the time of the newest point, None for
\* an empty measurement and when the query raises
get_last_timestamp(mirror, query_ok) ==
    IF ~query_ok \/ mirror = {} THEN NoTs
    ELSE Naive(MaxOf({pt.time : pt \in mirror}))

\* a resolution that asks the archive whatever the command line says
DamStartDateArchiveFirst(arg, tbl, mirror, query_ok) ==
    LET last == get_last_time(tbl)
    IN  IF TsTruthy(last.value)
        THEN [raised |-> FALSE, start_date |-> last.value,
              queried_archive |-> TRUE, queried_mirror |-> FALSE]
        ELSE [raised |-> FromIso(arg) = {},
              start_date |-> IF FromIso(arg) = {} THEN NoTs ELSE arg,
              queried_archive |-> TRUE, queried_mirror |-> FALSE]

\* a resolution that asks the mirror before the archive
DamStartDateMirrorFirst(arg, tbl, mirror, query_ok) ==
    IF TsTruthy(arg)
    THEN [raised |-> FromIso(arg) = {},
          start_date |-> IF FromIso(arg) = {} THEN NoTs ELSE arg,
          queried_archive |-> FALSE, queried_mirror |-> FALSE]
    ELSE LET last == get_last_timestamp(mirror, query_ok)
         IN  IF TsTruthy(last)
             THEN [raised |-> FALSE, start_date |-> last,
                   queried_archive |-> FALSE, queried_mirror |-> TRUE]
             ELSE [raised |-> get_last_time(tbl).raised,
                   start_date |-> IF TsTruthy(get_last_time(tbl).value)
                                    THEN get_last_time(tbl).value
                                    ELSE Naive(UtcNow - 7 * 86400),
                   queried_archive |-> TRUE, queried_mirror |-> TRUE]

\* lines 58-82: the start date of a run, and the stores that were asked
DamStartDate(arg, tbl, mirror, query_ok) ==
    IF TsTruthy(arg)
    THEN \* datetime.fromisoformat(args.start_date), which may raise
         [raised |-> FromIso(arg) = {},
          start_date |-> IF FromIso(arg) = {} THEN NoTs ELSE arg,
          queried_archive |-> FALSE, queried_mirror |-> FALSE]
    ELSE LET last == get_last_time(tbl)
         IN  IF last.raised
             THEN [raised |-> TRUE, start_date |-> NoTs,
                   queried_archive |-> TRUE, queried_mirror |-> FALSE]
             ELSE IF TsTruthy(last.value)
             THEN [raised |-> FALSE, start_date |-> last.value,
                   queried_archive |-> TRUE, queried_mirror |-> FALSE]
             ELSE LET fallback == get_last_timestamp(mirror, query_ok)
                  IN  [raised |-> FALSE,
                       start_date |-> IF TsTruthy(fallback) THEN fallback
                                      ELSE Naive(UtcNow - 7 * 86400),
                       queried_archive |-> TRUE, queried_mirror |-> TRUE]

\* the records the upstream DAM feed can serve
DamFeed ==
    { DamRaw(Naive(Midnight(0)), HourText(1), "HB_NORTH", "HU", Num(20)),
      DamRawCamel(Naive(Midnight(1)), HourText(24), "RN_NODE1", "RN", Num(18)) }

DamPages == SeqsUpTo(DamFeed, MaxPageLen)

\* --start-date of the command line: absent, a date, or a text that is none
StartDateArgs == {NoTs, Naive(Midnight(1)), BadTs}

DamIdle ==
    Idle @@ [arg |-> NoTs, queried_archive |-> FALSE, queried_mirror |-> FALSE,
             \* history: whether the query of the mirror could be answered
             query_ok |-> TRUE]

\* lines 47-87: the clients are created, the start date is resolved
DamRunStart ==
    /\ dam_run.pc \in {"idle", "exited"}
    /\ \E arg \in StartDateArgs, query_ok \in BOOLEAN :
         LET fresh == [DamIdle EXCEPT !.arg = arg, !.query_ok = query_ok]
             resolved == DamStartDate(arg, dam_lmp, mirror_dam_lmp, query_ok)
             asked == [fresh EXCEPT !.queried_archive = resolved.queried_archive,
                                    !.queried_mirror = resolved.queried_mirror]
         IN  \/ dam_run' = IF resolved.raised THEN Fail(asked, 0, "init", NoTs)
                           ELSE [asked EXCEPT !.pc = "fetch", !.page = 1,
                                              !.start_date = resolved.start_date]
             \* a create_*_from_env() raises (a missing environment variable)
             \/ dam_run' = Fail(fresh, 0, "init", NoTs)
    /\ UNCHANGED <<rtm_lmp_api, rtm_lmp_cdr, dam_lmp, mirror_rtm_lmp, marker, feed, runs, upstream, writer,
                   mirror_dam_lmp, conv, run, client,
                   rt_run, mirror_rtm_lmp_realtime, parser>>

\* fetch_paginated_data for fetch_spp_day_ahead_hourly: the request of page
\* dam_run.page
DamFetchPage ==
    /\ dam_run.pc = "fetch"
    /\ \/ dam_run' = Fail(Requested(dam_run), dam_run.page, "fetch", NoTs)
       \/ \E data \in DamPages, total_pages \in TotalPagesOf(dam_run) :
            dam_run' = Yielded(dam_run, data, total_pages)
    /\ UNCHANGED <<rtm_lmp_api, rtm_lmp_cdr, dam_lmp, mirror_rtm_lmp, marker, feed, runs, upstream, writer,
                   mirror_dam_lmp, conv, run, client,
                   rt_run, mirror_rtm_lmp_realtime, parser>>

\* the body of the for loop, lines 90-105, then the generator's next step;
\* after the last page lines 107-113: the run ends with status 0
DamProcessPage ==
    /\ dam_run.pc = "process"
    /\ LET page_data == dam_run.page_data
           sqlite == write_dam_lmp_raw(dam_lmp, page_data)
           filtered_data == FilterForInflux(page_data)
           points == Points([i \in 1..Len(filtered_data) |-> DamPoint(filtered_data[i])])
       IN  \E answers \in AnswersFor(points) :
             LET influx == IF filtered_data # <<>>
                             THEN write_dam_lmp_data(mirror_dam_lmp, filtered_data, answers)
                             ELSE [mirror |-> mirror_dam_lmp, count |-> 0, raised |-> FALSE]
                 after == [dam_run EXCEPT
                             !.total_sqlite = dam_run.total_sqlite + sqlite.count,
                             !.total_influx = dam_run.total_influx + influx.count,
                             !.page_data = <<>>,
                             !.processed = IF influx.raised THEN @ ELSE @ + 1]
             IN  /\ dam_lmp' = sqlite.tbl
                 /\ mirror_dam_lmp' = influx.mirror
                 /\ dam_run' = IF influx.raised
                                 THEN Fail(after, dam_run.page, "write", NoTs)
                               ELSE IF dam_run.page < dam_run.pages_to_fetch
                                 THEN [after EXCEPT !.pc = "fetch", !.page = dam_run.page + 1]
                               ELSE [after EXCEPT !.pc = "exited", !.exit_code = 0,
                                                  !.reported = <<after.total_sqlite, after.total_influx>>]
    /\ UNCHANGED <<rtm_lmp_api, rtm_lmp_cdr, mirror_rtm_lmp, marker, feed, runs, upstream, writer, conv, run, client,
                   rt_run, mirror_rtm_lmp_realtime, parser>>

\* the archive file is replaced by a fresh one (DEFAULT_DB_PATH does not
\* exist when the next run opens it: _init_schema creates empty tables)
FreshArchive ==
    /\ dam_run.pc \in {"idle", "exited"}
    /\ dam_lmp # EmptyTable
    /\ dam_lmp' = EmptyTable
    /\ UNCHANGED <<rtm_lmp_api, rtm_lmp_cdr, mirror_rtm_lmp, marker, feed, runs, upstream, writer,
                   mirror_dam_lmp, dam_run, conv, run, client,
                   rt_run, mirror_rtm_lmp_realtime, parser>>

----------------------------------------------------------------------------
(* The conversion of one raw record by each raw writer *)

MaxDay == 1

NoConversion == [op |-> "none", at |-> <<>>, rows |-> {}, points |-> {}]

\* instants of the base day: the first quarter and the last minutes of two
\* hours, on the minute and 47 seconds past it
ConvInstants ==
    {Clock(h, m, sec) : h \in {12, 23}, m \in (0..14) \cup (55..59), sec \in {0, 47}}

\* write_rtm_lmp_raw of one record, stamped t, into an empty table
FloorOne ==
    /\ \E t \in ConvInstants, aware \in BOOLEAN :
         LET ts == IF aware THEN Aware(t) ELSE Naive(t)
             res == write_rtm_lmp_raw(EmptyTable, <<RtmRaw(ts, "HB_NORTH", Num(25))>>)
             rec == <<RtmRaw(ts, "HB_NORTH", Num(25))>>
         IN  conv' = [op |-> "floor", at |-> <<t>>, rows |-> Rows(res.tbl),
                      points |-> write_rtm_lmp_data({}, rec, Accepting).mirror]
    /\ UNCHANGED <<rtm_lmp_api, rtm_lmp_cdr, dam_lmp, mirror_rtm_lmp, marker, feed, runs, upstream, writer,
                   mirror_dam_lmp, dam_run, run, client,
                   rt_run, mirror_rtm_lmp_realtime, parser>>

\* write_dam_lmp_raw and write_dam_lmp_data of one record, of delivery day d
\* and hour ending h, into an empty table and an empty measurement
HourOne ==
    /\ \E d \in 0..MaxDay, h \in 0..25 :
         LET rec == <<DamRaw(Naive(Midnight(d)), HourText(h), "HB_NORTH", "HU", Num(20))>>
             res == write_dam_lmp_raw(EmptyTable, rec)
         IN  conv' = [op |-> "hour", at |-> <<d, h>>, rows |-> Rows(res.tbl),
                      points |-> write_dam_lmp_data({}, rec, Accepting).mirror]
    /\ UNCHANGED <<rtm_lmp_api, rtm_lmp_cdr, dam_lmp, mirror_rtm_lmp, marker, feed, runs, upstream, writer,
                   mirror_dam_lmp, dam_run, run, client,
                   rt_run, mirror_rtm_lmp_realtime, parser>>

\* raw records in which each of the timestamp, the settlement point and the
\* price is present or not: a key that is absent, a null, a price of 0
PartialRtmRecords ==
    {RtmRaw(ts, sp, lmp) : ts \in {Naive(Clock(12, 3, 47)), NoTs},
                           sp \in {"HB_NORTH", "", NullSp},
                           lmp \in {Num(25), Num(0), None}}

PartialDamRecords ==
    {DamRaw(d, h, sp, "HU", p) : d \in {Naive(Midnight(0)), NoTs},
                                 h \in {HourText(1), NoHour},
                                 sp \in {"HB_NORTH", "", NullSp},
                                 p \in {Num(20), Num(0), None}}

\* write_rtm_lmp_raw and write_rtm_lmp_data of one record that may lack fields
RtmRawOne ==
    /\ \E record \in PartialRtmRecords :
         conv' = [op |-> "rtm_raw", at |-> <<record>>,
                  rows |-> Rows(write_rtm_lmp_raw(EmptyTable, <<record>>).tbl),
                  points |-> write_rtm_lmp_data({}, <<record>>, Accepting).mirror]
    /\ UNCHANGED <<rtm_lmp_api, rtm_lmp_cdr, dam_lmp, mirror_rtm_lmp, marker, feed, runs, upstream, writer,
                   mirror_dam_lmp, dam_run, run, client,
                   rt_run, mirror_rtm_lmp_realtime, parser>>

\* write_dam_lmp_raw and write_dam_lmp_data of one record that may lack fields
DamRawOne ==
    /\ \E record \in PartialDamRecords :
         conv' = [op |-> "dam_raw", at |-> <<record>>,
                  rows |-> Rows(write_dam_lmp_raw(EmptyTable, <<record>>).tbl),
                  points |-> write_dam_lmp_data({}, <<record>>, Accepting).mirror]
    /\ UNCHANGED <<rtm_lmp_api, rtm_lmp_cdr, dam_lmp, mirror_rtm_lmp, marker, feed, runs, upstream, writer,
                   mirror_dam_lmp, dam_run, run, client,
                   rt_run, mirror_rtm_lmp_realtime, parser>>

----------------------------------------------------------------------------
(* The realtime run: scraper_rtm_lmp_realtime.main over the CDR page *)

\* cst_to_utc: six hours are added, whatever the season
cst_to_utc(cst_datetime) == [cst_datetime EXCEPT !.s = cst_datetime.s + 6 * 3600]

\* the instants the "Last Updated" label of the page can show, in local time
SnapshotTimes == {Clock(6, 0, 0), Clock(6, 5, 0)}

\* parser.timestamp: no label on the page, a label strptime cannot read, or
\* the text of a local instant
Labels == {NoTs, BadTs} \cup {Naive(t) : t \in SnapshotTimes}

\* datetime.strptime(parser.timestamp, "%b %d, %Y %H:%M:%S") under the except
\* clause of fetch_rtm_lmp: None for no label and for an unreadable one
ParsedLabel(label) == IF label.k = "naive" THEN label ELSE NoTs

\* the records RTMLMPParser can hand over
CdrRecord(sp, lmp) == [settlementPoint |-> sp, lmp |-> lmp]

CdrRecords == {CdrRecord("HB_NORTH", 25), CdrRecord("OTHER_NODE", 30)}

CdrPages == SeqsUpTo(CdrRecords, MaxPageLen)

\* a point of measurement rtm_lmp_realtime
RealtimePoint(time, sp, lmp) == [time |-> time, settlement_point |-> sp, lmp |-> lmp]

\* what the measurement can hold when a run starts
RealtimeMirrors ==
    {{}} \cup {{RealtimePoint(cst_to_utc(Naive(t)).s, "HB_NORTH", 20)} : t \in SnapshotTimes}

RtIdle ==
    [pc |-> "idle", cst_timestamp |-> NoTs, records |-> <<>>,
     utc_timestamp |-> NoTs, last_timestamp |-> NoTs, exit_code |-> 0,
     \* history: whether the page was fetched, whether line 88 was reached,
     \* and the sinks as the run found them
     fetched |-> FALSE, attempted |-> FALSE,
     cdr0 |-> EmptyTable, mirror0 |-> {}]

\* a return statement of main, and the except clause of lines 117-121
RtReturnZero(r, code) == [r EXCEPT !.pc = "exited", !.exit_code = 0]

RtReturn(r, code) == [r EXCEPT !.pc = "exited", !.exit_code = code]

\* line 79 after lines 72-77: the snapshot is not newer than the mirror
UpToDateStrict(utc_timestamp, last_timestamp) ==
    TsTruthy(last_timestamp) /\ utc_timestamp.s < last_timestamp.s

UpToDate(utc_timestamp, last_timestamp) ==
    TsTruthy(last_timestamp) /\ utc_timestamp.s <= last_timestamp.s

\* line 88: class SQLiteArchive defines no write_rtm_lmp_cdr_raw, so the
\* attribute lookup raises AttributeError before anything is written
write_rtm_lmp_cdr_raw(tbl, utc_timestamp, records) ==
    [tbl |-> tbl, count |-> 0, raised |-> TRUE]

\* line 106: class InfluxDBWriter defines no write_rtm_lmp_realtime either
write_rtm_lmp_realtime(mirror, influx_records) ==
    [mirror |-> mirror, count |-> 0, raised |-> TRUE]

\* line 92: the records of the allow-listed settlement points
FilterRealtime(records) ==
    SelectSeq(records, LAMBDA r : r.settlementPoint \in INFLUXDB_SETTLEMENT_POINTS)

\* lines 97-103: the records handed to the mirror writer
InfluxRecords(utc_timestamp, filtered_records) ==
    [i \in 1..Len(filtered_records) |->
        [SCEDTimestamp |-> utc_timestamp,
         SettlementPoint |-> filtered_records[i].settlementPoint,
         LMP |-> filtered_records[i].lmp]]

\* lines 42-51: the clients are created; a create_*_from_env() may raise
RtStart ==
    /\ rt_run.pc \in {"idle", "exited"}
    /\ LET fresh == [RtIdle EXCEPT !.cdr0 = rtm_lmp_cdr,
                                   !.mirror0 = mirror_rtm_lmp_realtime]
       IN  \/ rt_run' = [fresh EXCEPT !.pc = "fetch"]
           \/ rt_run' = RtReturn(fresh, 1)
    /\ UNCHANGED <<rtm_lmp_api, rtm_lmp_cdr, dam_lmp, mirror_rtm_lmp, marker, feed, runs,
                   upstream, writer, mirror_dam_lmp, dam_run, conv, run, client,
                   mirror_rtm_lmp_realtime, parser>>

\* lines 55-63: fetch_rtm_lmp, which raises when the page cannot be fetched,
\* then the two early returns
RtFetch ==
    /\ rt_run.pc = "fetch"
    /\ \/ rt_run' = RtReturn(rt_run, 1)
       \/ \E label \in Labels, records \in CdrPages :
            LET got == [rt_run EXCEPT !.fetched = TRUE,
                                      !.cst_timestamp = ParsedLabel(label),
                                      !.records = records]
            IN  rt_run' = IF ~TsTruthy(got.cst_timestamp) THEN RtReturn(got, 1)
                          ELSE IF records = <<>> THEN RtReturn(got, 1)
                          ELSE [got EXCEPT !.pc = "compare"]
    /\ UNCHANGED <<rtm_lmp_api, rtm_lmp_cdr, dam_lmp, mirror_rtm_lmp, marker, feed, runs,
                   upstream, writer, mirror_dam_lmp, dam_run, conv, run, client,
                   mirror_rtm_lmp_realtime, parser>>

\* lines 65-85: the snapshot is compared with the newest point of the mirror
RtCompare ==
    /\ rt_run.pc = "compare"
    /\ \E query_ok \in BOOLEAN :
         LET utc_timestamp == cst_to_utc(rt_run.cst_timestamp)
             last_timestamp == get_last_timestamp(mirror_rtm_lmp_realtime, query_ok)
             seen == [rt_run EXCEPT !.utc_timestamp = utc_timestamp,
                                    !.last_timestamp = last_timestamp]
         IN  rt_run' = IF UpToDate(utc_timestamp, last_timestamp)
                         THEN RtReturn(seen, 0)
                         ELSE [seen EXCEPT !.pc = "write"]
    /\ UNCHANGED <<rtm_lmp_api, rtm_lmp_cdr, dam_lmp, mirror_rtm_lmp, marker, feed, runs,
                   upstream, writer, mirror_dam_lmp, dam_run, conv, run, client,
                   mirror_rtm_lmp_realtime, parser>>

\* lines 87-115 under the except clause of lines 117-121
RtWrite ==
    /\ rt_run.pc = "write"
    /\ LET sqlite == write_rtm_lmp_cdr_raw(rtm_lmp_cdr, rt_run.utc_timestamp, rt_run.records)
           filtered_records == FilterRealtime(rt_run.records)
           influx == IF sqlite.raised
                       THEN [mirror |-> mirror_rtm_lmp_realtime, count |-> 0, raised |-> TRUE]
                       ELSE write_rtm_lmp_realtime(mirror_rtm_lmp_realtime,
                                InfluxRecords(rt_run.utc_timestamp, filtered_records))
           tried == [rt_run EXCEPT !.attempted = TRUE]
       IN  /\ rtm_lmp_cdr' = sqlite.tbl
           /\ mirror_rtm_lmp_realtime' = influx.mirror
           /\ rt_run' = IF sqlite.raised \/ influx.raised THEN RtReturn(tried, 1)
                        ELSE RtReturn(tried, 0)
    /\ UNCHANGED <<rtm_lmp_api, dam_lmp, mirror_rtm_lmp, marker, feed, runs,
                   upstream, writer, mirror_dam_lmp, dam_run, conv, run, client, parser>>

----------------------------------------------------------------------------
(* RTMLMPParser: the HTML parser of the CDR page *)

MaxRows == 2

\* a td element: its class attribute and its text ("" when the element holds
\* no text, in which case HTMLParser does not call handle_data)
Cell(class, text) == [class |-> class, text |-> text]

Left(text) == Cell("tdLeft", text)

\* the table rows a page can hold, each the sequence of its td elements
TableRows ==
    {<<Left("HB_NORTH"), Left("25")>>,
     <<Left("LZ_WEST"), Left("30"), Left("25")>>,
     <<Left("HB_NORTH"), Cell("tdRight", "30"), Left("25")>>,
     <<Left("Settlement Point"), Left("LMP")>>,
     <<Left("HB_NORTH"), Left("N/A")>>,
     <<Left("HB_NORTH")>>,
     <<Cell("tdRight", "HB_NORTH"), Cell("tdRight", "25")>>,
     <<Left(" "), Left("25")>>,
     <<Left(""), Left("HB_NORTH"), Left("25")>>,
     <<Left("HB_NORTH"), Left("")>>}

\* str.strip()
Strip(text) == IF text = " " THEN "" ELSE text

\* the texts float() accepts, with their values; any other raises ValueError
Numerals == ("25" :> 25) @@ ("30" :> 30)

\* "tdLeft" in self.td_class
IsTdLeft(class) == class \in {"tdLeft"}

\* RTMLMPParser.__init__; rows is history: the rows fed so far
RTMLMPParser ==
    [timestamp |-> "", records |-> <<>>, current_row |-> <<>>, in_td |-> FALSE,
     in_sched_time |-> FALSE, td_class |-> "", rows |-> <<>>]

handle_starttag(p, tag, class) ==
    IF tag = "div" /\ class = "schedTime" THEN [p EXCEPT !.in_sched_time = TRUE]
    ELSE IF tag = "td" THEN [p EXCEPT !.in_td = TRUE, !.td_class = class]
    ELSE p

\* lines 52-69: the end of a row that gathered cells
EndOfRow(p) ==
    LET settlement_point == Strip(p.current_row[1])
        lmp_str == Strip(p.current_row[2])
        emits == /\ settlement_point # "" /\ lmp_str # ""
                 /\ settlement_point # "Settlement Point"
                 /\ lmp_str \in DOMAIN Numerals
    IN  IF Len(p.current_row) >= 2 /\ emits
          THEN [p EXCEPT !.records = Append(@, CdrRecord(settlement_point, Numerals[lmp_str])),
                         !.current_row = <<>>]
          ELSE [p EXCEPT !.current_row = <<>>]

handle_endtag(p, tag) ==
    IF tag = "div" /\ p.in_sched_time THEN [p EXCEPT !.in_sched_time = FALSE]
    ELSE IF tag = "td" THEN [p EXCEPT !.in_td = FALSE]
    ELSE IF tag = "tr" /\ p.current_row # <<>> THEN EndOfRow(p)
    ELSE p

\* the label "Last Updated: ..." is not among the texts of the table
handle_data(p, data) ==
    IF p.in_sched_time THEN p
    ELSE IF p.in_td /\ IsTdLeft(p.td_class)
      THEN [p EXCEPT !.current_row = Append(@, data)]
    ELSE p

\* the callbacks of one td element
FeedCell(p, cell) ==
    LET opened == handle_starttag(p, "td", cell.class)
        filled == IF cell.text = "" THEN opened ELSE handle_data(opened, cell.text)
    IN  handle_endtag(filled, "td")

RECURSIVE FeedCells(_, _)
FeedCells(p, cells) ==
    IF cells = <<>> THEN p
    ELSE FeedCells(FeedCell(p, Head(cells)), Tail(cells))

\* HTMLParser.feed over one <tr> ... </tr>
FeedRow ==
    /\ Len(parser.rows) < MaxRows
    /\ \E row \in TableRows :
         LET opened == handle_starttag(parser, "tr", "")
             closed == handle_endtag(FeedCells(opened, row), "tr")
         IN  parser' = [closed EXCEPT !.rows = Append(@, row)]
    /\ UNCHANGED <<rtm_lmp_api, rtm_lmp_cdr, dam_lmp, mirror_rtm_lmp, marker, feed, runs,
                   upstream, writer, mirror_dam_lmp, dam_run, conv, run, client,
                   rt_run, mirror_rtm_lmp_realtime>>

----------------------------------------------------------------------------
(* ERCOTClient.parse_response_data *)

Field(name, dataType) == [name |-> name, dataType |-> dataType]

\* the field definitions of a response
FieldLists ==
    {<<Field("settlementPoint", "STRING"), Field("settlementPointPrice", "DOUBLE")>>,
     <<Field("settlementPointPrice", "DOUBLE"), Field("hourEnding", "INTEGER")>>,
     <<Field("DSTFlag", "BOOLEAN"), Field("settlementPointPrice", "DOUBLE")>>}

\* the cells of a row: null, the numbers 0 and 25, a text that is no number
Cells == {None, Num(0), Num(25), BadStr}

\* a row of the response, which may be shorter than the field list
DataRows == SeqsUpTo(Cells, MaxPageLen)

\* lines 235-245: the conversion of one cell; empty when float() raises
Converted(value, field_type) ==
    IF value = None THEN {None}
    ELSE IF field_type = "DATETIME" THEN {value}
    ELSE IF field_type = "BOOLEAN" THEN {Num(IF Truthy(value) THEN 1 ELSE 0)}
    ELSE IF field_type \in {"DOUBLE", "INTEGER"}
      THEN IF ~Truthy(value) THEN {None}
           ELSE IF value.k = "num" THEN {value} ELSE {}
    ELSE {value}

\* the value of field i of a row: None for a cell the row does not have
CellOf(row, i) == IF i <= Len(row) THEN row[i] ELSE None

\* the records of the rows, or raised when a cell cannot be converted
parse_response_data(fields, data) ==
    LET names == {fields[i].name : i \in 1..Len(fields)}
        \* the last definition of a name wins, as a dict assignment does
        last(n) == CHOOSE i \in 1..Len(fields) :
                      /\ fields[i].name = n
                      /\ \A j \in (i + 1)..Len(fields) : fields[j].name # n
        bad(row) == \E i \in 1..Len(fields) :
                       Converted(CellOf(row, i), fields[i].dataType) = {}
        record(row) ==
            [n \in names |->
                CHOOSE v \in Converted(CellOf(row, last(n)), fields[last(n)].dataType) : TRUE]
    IN  IF \E k \in 1..Len(data) : bad(data[k])
          THEN [raised |-> TRUE, records |-> <<>>]
          ELSE [raised |-> FALSE, records |-> [k \in 1..Len(data) |-> record(data[k])]]

\* parse_response_data of one row under one field list
ParseOne ==
    /\ \E fields \in FieldLists, row \in DataRows :
         LET res == parse_response_data(fields, <<row>>)
         IN  conv' = [op |-> "parse", at |-> <<fields, row>>,
                      rows |-> {res.records[k] : k \in 1..Len(res.records)},
                      points |-> {}]
    /\ UNCHANGED <<rtm_lmp_api, rtm_lmp_cdr, dam_lmp, mirror_rtm_lmp, marker, feed, runs,
                   upstream, writer, mirror_dam_lmp, dam_run, run, client,
                   rt_run, mirror_rtm_lmp_realtime, parser>>

----------------------------------------------------------------------------
(* The archive under arbitrary sequences of writes *)

Init ==
    /\ rtm_lmp_api = EmptyTable
    /\ rtm_lmp_cdr = EmptyTable
    /\ dam_lmp = EmptyTable
    /\ mirror_rtm_lmp = {}
    /\ marker = NoTs
    /\ feed = NumericFeed
    /\ runs = NoRuns
    /\ upstream = <<>>
    /\ writer = NoCall
    /\ run = Idle
    /\ client = IdleClient
    /\ mirror_dam_lmp = {}
    /\ dam_run = DamIdle
    /\ conv = NoConversion
    /\ rt_run = RtIdle
    /\ mirror_rtm_lmp_realtime = {}
    /\ parser = RTMLMPParser

WriteRtmLmpRaw ==
    \E records \in RtmRawBatches :
        LET res == write_rtm_lmp_raw(rtm_lmp_api, records)
        IN  /\ rtm_lmp_api' = res.tbl
            /\ UNCHANGED <<rtm_lmp_cdr, dam_lmp, mirror_rtm_lmp, marker, feed, runs, upstream, writer, mirror_dam_lmp, dam_run, conv, run, client,
                   rt_run, mirror_rtm_lmp_realtime, parser>>

WriteDamLmpRaw ==
    \E records \in DamRawBatches :
        LET res == write_dam_lmp_raw(dam_lmp, records)
        IN  /\ dam_lmp' = res.tbl
            /\ UNCHANGED <<rtm_lmp_api, rtm_lmp_cdr, mirror_rtm_lmp, marker, feed, runs, upstream, writer, mirror_dam_lmp, dam_run, conv, run, client,
                   rt_run, mirror_rtm_lmp_realtime, parser>>

WriteRtmLmpApi ==
    \E records \in RtmApiBatches :
        LET res == write_rtm_lmp_api(rtm_lmp_api, records)
        IN  /\ rtm_lmp_api' = res.tbl
            /\ UNCHANGED <<rtm_lmp_cdr, dam_lmp, mirror_rtm_lmp, marker, feed, runs, upstream, writer, mirror_dam_lmp, dam_run, conv, run, client,
                   rt_run, mirror_rtm_lmp_realtime, parser>>

WriteRtmLmpCdr ==
    \E records \in RtmCdrBatches :
        LET res == write_rtm_lmp_cdr(rtm_lmp_cdr, records)
        IN  /\ rtm_lmp_cdr' = res.tbl
            /\ UNCHANGED <<rtm_lmp_api, dam_lmp, mirror_rtm_lmp, marker, feed, runs, upstream, writer, mirror_dam_lmp, dam_run, conv, run, client,
                   rt_run, mirror_rtm_lmp_realtime, parser>>

WriteDamLmp ==
    \E records \in DamBatches :
        LET res == write_dam_lmp(dam_lmp, records)
        IN  /\ dam_lmp' = res.tbl
            /\ UNCHANGED <<rtm_lmp_api, rtm_lmp_cdr, mirror_rtm_lmp, marker, feed, runs, upstream, writer, mirror_dam_lmp, dam_run, conv, run, client,
                   rt_run, mirror_rtm_lmp_realtime, parser>>

Next ==
    \/ WriteRtmLmpRaw
    \/ WriteDamLmpRaw
    \/ WriteRtmLmpApi
    \/ WriteRtmLmpCdr
    \/ WriteDamLmp

vars == <<rtm_lmp_api, rtm_lmp_cdr, dam_lmp, mirror_rtm_lmp, marker, feed, runs, upstream, writer, mirror_dam_lmp, dam_run, conv, run, client,
          rt_run, mirror_rtm_lmp_realtime, parser>>

Spec == Init /\ [][Next]_vars

RunNext ==
    \/ RunStart
    \/ FetchPage
    \/ ProcessPage
    \/ Finish

SpecRun == Init /\ [][RunNext]_vars

\* the runs against an upstream that may send a price that is no number
InitText ==
    /\ rtm_lmp_api = EmptyTable
    /\ rtm_lmp_cdr = EmptyTable
    /\ dam_lmp = EmptyTable
    /\ mirror_rtm_lmp = {}
    /\ marker = NoTs
    /\ feed = TextFeed
    /\ runs = NoRuns
    /\ upstream = <<>>
    /\ writer = NoCall
    /\ run = Idle
    /\ client = IdleClient
    /\ mirror_dam_lmp = {}
    /\ dam_run = DamIdle
    /\ conv = NoConversion
    /\ rt_run = RtIdle
    /\ mirror_rtm_lmp_realtime = {}
    /\ parser = RTMLMPParser

SpecRunText == InitText /\ [][RunNext]_vars

\* the DAM runs, one after the other
DamNext ==
    \/ DamRunStart
    \/ DamFetchPage
    \/ DamProcessPage
    \/ FreshArchive

SpecDam == Init /\ [][DamNext]_vars

\* two runs of the RTM API scraper side by side
PairNext ==
    \E i \in 1..2 :
        \/ PairStart(i)
        \/ PairFetchPage(i)
        \/ PairProcessPage(i)
        \/ PairFinish(i)

SpecPair == Init /\ [][PairNext]_vars

\* the calls of the mirror's batch writer, one after the other
WriterNext ==
    \/ WriterCall
    \/ WriterAttempt

SpecWriter == Init /\ [][WriterNext]_vars

\* a call that has started runs on: time.sleep returns and client.write
\* returns or raises
SpecWriterFair == SpecWriter /\ WF_vars(WriterAttempt)

\* the raw writers applied to single records
ConvNext ==
    \/ FloorOne
    \/ HourOne
    \/ RtmRawOne
    \/ DamRawOne
    \/ ParseOne

SpecConv == Init /\ [][ConvNext]_vars

\* the client against every scripted source
ClientNext ==
    \/ CallStart
    \/ CallAttempt
    \/ CallDone
    \/ TokenExpires

SpecClient == Init /\ [][ClientNext]_vars

\* a make_api_call that has started runs on: nothing suspends its loop
SpecClientFair == SpecClient /\ WF_vars(CallAttempt)

\* the realtime runs, one after the other, over a mirror that may hold a point
InitRealtime ==
    /\ rtm_lmp_api = EmptyTable
    /\ rtm_lmp_cdr = EmptyTable
    /\ dam_lmp = EmptyTable
    /\ mirror_rtm_lmp = {}
    /\ marker = NoTs
    /\ feed = NumericFeed
    /\ runs = NoRuns
    /\ upstream = <<>>
    /\ writer = NoCall
    /\ run = Idle
    /\ client = IdleClient
    /\ mirror_dam_lmp = {}
    /\ dam_run = DamIdle
    /\ conv = NoConversion
    /\ rt_run = RtIdle
    /\ mirror_rtm_lmp_realtime \in RealtimeMirrors
    /\ parser = RTMLMPParser

RtNext ==
    \/ RtStart
    \/ RtFetch
    \/ RtCompare
    \/ RtWrite

SpecRealtime == InitRealtime /\ [][RtNext]_vars

\* the parser over the rows of one page
ParserNext == FeedRow

SpecParser == Init /\ [][ParserNext]_vars

----------------------------------------------------------------------------
(* C1: for every archive state and every batch B of raw records, writing B *)
(* with write_rtm_lmp_raw (resp. write_dam_lmp_raw) a second time right    *)
(* after the first leaves the table with the same rows, the same values    *)
(* and the same row count as the first write left it.                      *)
C1_RawWriteIdempotent ==
    /\ \A B \in RtmRawBatches :
          LET once == write_rtm_lmp_raw(rtm_lmp_api, B).tbl
              twice == write_rtm_lmp_raw(once, B).tbl
          IN  twice = once /\ get_record_count(twice) = get_record_count(once)
    /\ \A B \in DamRawBatches :
          LET once == write_dam_lmp_raw(dam_lmp, B).tbl
              twice == write_dam_lmp_raw(once, B).tbl
          IN  twice = once /\ get_record_count(twice) = get_record_count(once)

\* both tables hold rows, and for each a full-length batch exists whose first
\* record meets a stored key and whose first write changes the table, so that
\* the second write meets the rows of the first
C1_Witness ==
    /\ \E B \in RtmRawBatches :
          /\ Len(B) = MaxBatchLen
          /\ \E row \in RtmRawRow(B[1]) : KeyStored(rtm_lmp_api, row)
          /\ write_rtm_lmp_raw(rtm_lmp_api, B).tbl # rtm_lmp_api
    /\ \E B \in DamRawBatches :
          /\ Len(B) = MaxBatchLen
          /\ \E row \in DamRawRow(B[1]) : KeyStored(dam_lmp, row)
          /\ write_dam_lmp_raw(dam_lmp, B).tbl # dam_lmp

(* C8: after any sequence of writes through the five writers, each of the  *)
(* three archive tables holds at most one row for any (time,               *)
(* settlement_point) pair.                                                 *)
OneRowPerKey(tbl) ==
    /\ \A r \in DOMAIN tbl : tbl[r] = 1
    /\ \A r1, r2 \in DOMAIN tbl : SameKey(r1, r2) => r1 = r2

C8_OneRowPerKey ==
    OneRowPerKey(rtm_lmp_api) /\ OneRowPerKey(rtm_lmp_cdr) /\ OneRowPerKey(dam_lmp)

\* every table has been written, rtm_lmp_api and dam_lmp by both of their
\* writers: each holds a row only the raw writer stores (a settlement point
\* of the raw records alone) and a row only the other writer stores (a price
\* of its records alone, at a key the raw writer stores too)
C8_Witness ==
    /\ \E r1, r2 \in Rows(rtm_lmp_api) :
          r1.settlement_point = "RN_NODE1" /\ r2.lmp = 26
    /\ rtm_lmp_cdr # EmptyTable
    /\ \E r1, r2 \in Rows(dam_lmp) :
          r1.settlement_point = "RN_NODE1" /\ r2.lmp = 21

----------------------------------------------------------------------------
\* a <= b for marker contents, an absent marker being the least
MarkerLeq(a, b) == ~TsTruthy(a) \/ (TsTruthy(b) /\ a.s <= b.s)

(* C2: over any sequence of RTM API runs, whatever timestamps the fetched  *)
(* records carry, the instant stored in the marker file never decreases.   *)
C2_MarkerNeverDecreases == [][MarkerLeq(marker, marker')]_vars

(* C3: in every reachable state the marker is at most the maximum time     *)
(* among the rows committed to archive table rtm_lmp_api.                  *)
C3_MarkerAtMostArchiveMax ==
    TsTruthy(marker) => \E r \in Rows(rtm_lmp_api) : marker.s <= r.time.s

(* C4: a run that wrote pages 1..k-1 and then failed fatally while         *)
(* fetching or writing page k (k >= 2) ends with the marker equal to the   *)
(* maximum timestamp of the records of pages 1..k-1.                       *)
C4_PartialRunAdvancesMarker ==
    (/\ run.pc = "exited" /\ run.exit_code = 1
     /\ run.failed_page >= 2
     /\ TsTruthy(run.committed_latest))
        => marker = run.committed_latest

(* C5: a run in which no page is processed, because the clients, the       *)
(* authentication or the fetch of page 1 raise, leaves the marker file as  *)
(* it was before the run.                                                  *)
C5_NoPageRunKeepsMarker ==
    (/\ run.pc = "exited" /\ run.exit_code = 1
     /\ run.failed_in \in {"init", "fetch"} /\ run.failed_page <= 1)
        => marker = run.marker0

\* a run failed at the fetch of page 1 after an earlier run had saved a marker
C5_Witness ==
    /\ run.pc = "exited" /\ run.exit_code = 1
    /\ run.failed_in = "fetch" /\ run.failed_page = 1
    /\ TsTruthy(marker) /\ rtm_lmp_api # EmptyTable

(* C6: a run that persisted no record to the archive (every                *)
(* write_rtm_lmp_raw of the run returned 0) does not change the marker.    *)
C6_ZeroRecordRunKeepsMarker ==
    (run.pc = "exited" /\ run.exit_code = 0 /\ run.total_sqlite = 0)
        => marker = run.marker0

(* C7: for each allow-listed settlement point, every point of the mirror   *)
(* measurement is in the archive table at the same time with an equal      *)
(* price.                                                                  *)
C7_MirrorWithinArchive ==
    \A p \in mirror_rtm_lmp :
        p.settlement_point \in INFLUXDB_SETTLEMENT_POINTS =>
            \E r \in Rows(rtm_lmp_api) :
                /\ r.time.s = p.time
                /\ r.settlement_point = p.settlement_point
                /\ r.lmp = p.lmp

----------------------------------------------------------------------------
(* The retry schedule of make_api_call *)

\* the source that answers 429 to the first k requests and 200 afterwards
RateLimitedThenOk(k) == [i \in 1..(k + 1) |-> IF i <= k THEN "429" ELSE "200"]

\* the delays 1, 2, ..., 2^(k-1)
DoublingDelays(k) == [i \in 1..k |-> 2 ^ (i - 1)]

CallOver == client.pc \in {"returned", "raised"}

\* C9: against a source that answers 429 to k consecutive requests
\* (0 <= k <= max_retries) and then 200, make_api_call returns the body after
\* exactly k + 1 requests, having slept 1, 2, ..., 2^(k-1) seconds between them.
C9_RateLimitBackoff ==
    \A k \in 0..max_retries :
        (CallOver /\ client.script = RateLimitedThenOk(k)) =>
            /\ client.pc = "returned"
            /\ client.requests = k + 1
            /\ client.sleeps = DoublingDelays(k)

\* C10: against a source that answers every request with 429, or every request
\* with a 5xx status, make_api_call sends at most max_retries requests and then
\* raises instead of returning data.
C10_BoundedRequests ==
    client.script \in {<<"429">>, <<"500">>} =>
        /\ client.requests <= max_retries
        /\ CallOver => client.pc = "raised"

----------------------------------------------------------------------------
(* Termination of make_api_call *)

\* the most HTTP requests one call can send: max_retries + 1 calls of
\* session.get, each resent max_retries times by the adapter
RequestBound == (max_retries + 1) * (max_retries + 1)

\* C11: whatever the source answers (any mix of 429, 401, 5xx, other error
\* statuses, network errors and 200), one make_api_call ends, by returning or
\* by raising, and has sent a number of requests bounded by a function of
\* max_retries by then; no sequence of answers keeps it retrying forever.
C11_CallTerminates ==
    /\ [](client.requests <= RequestBound /\ client.gets <= max_retries + 1)
    /\ (client.pc = "loop") ~> CallOver

\* a call against the unscripted source has used up the whole bound, having
\* met refused tokens as well as errors it slept on
C11_Witness ==
    /\ client.script = Unscripted
    /\ client.pc = "raised"
    /\ client.gets = max_retries + 1
    /\ client.rejected > 0
    /\ client.sleeps # <<>>

----------------------------------------------------------------------------
(* The token of the client *)

\* C12: when a data request is answered with 401, the client discards its
\* token, obtains a new one through get_token and re-sends the request with
\* the new token; the failure is surfaced when the re-sent request is refused
\* as well (authentication is retried once).
C12_ReauthOn401 ==
    /\ (client.pc = "loop" /\ client.rejected > 0) =>
          (client.token = "held" /\ client.bearer = "held")
    /\ client.rejected >= 2 => client.pc = "raised"

\* C13: at the start of every make_api_call the client holds a token whose
\* expiry lies in the future (get_token is called first when the token is
\* absent or its expiry has passed), and no data request is sent without a
\* token obtained from a successful authentication.
C13_TokenValidAtCallStart ==
    /\ (client.pc = "loop" /\ client.gets = 0) =>
          /\ client.token = "held"
          /\ client.token_expiry = "future"
          /\ client.bearer = "held"
    /\ client.requests > 0 => client.bearer # "none"

\* a call has started holding a token whose expiry had passed, and is about
\* to send its first request
C13_Witness ==
    /\ client.pc = "loop" /\ client.gets = 0
    /\ client.found = "past"

FailedExchanges == Exchanges \ {"id_token"}

\* C14: when the credential exchange fails or its response has no id_token,
\* get_token raises, token and token_expiry keep the values they had, and
\* the call that asked for the token sends no data request.
C14_FailedAuthKeepsToken ==
    [][(client.pc = "idle" /\ client'.exchange \in FailedExchanges) =>
          /\ client'.pc = "raised"
          /\ client'.token = client.token
          /\ client'.token_expiry = client.token_expiry
          /\ client'.requests = 0 /\ client'.gets = 0]_vars

\* the exchange gave no id_token to a call that held an expired token: the
\* call has raised and the expired token is still held
C14_Witness ==
    /\ client.pc = "raised"
    /\ client.exchange = "no_id_token"
    /\ client.token = "held" /\ client.token_expiry = "past"

----------------------------------------------------------------------------
(* Pagination *)

UpTo(n) == [i \in 1..n |-> i]

RunCompleted == run.pc = "save" \/ (run.pc = "exited" /\ run.exit_code = 0)

\* C15: for a feed whose first response reports totalPages = N >= 1, and with
\* no request failing, fetch_paginated_data requests pages 1, 2, ..., N in
\* increasing order, each exactly once, yields exactly N pages in that order,
\* and then ends.
C15_PagesInOrder ==
    /\ run.requested = UpTo(Len(run.requested))
    /\ run.yielded = UpTo(Len(run.yielded))
    /\ (RunCompleted /\ run.total_pages >= 1) =>
          /\ run.requested = UpTo(run.total_pages)
          /\ run.yielded = UpTo(run.total_pages)

\* a run over the largest feed has consumed all its pages and ended
C15_Witness ==
    /\ run.pc = "exited" /\ run.exit_code = 0
    /\ run.total_pages = MaxPages
    /\ Len(run.yielded) = MaxPages

\* C16: during a run the request for page k+1 is not issued until the archive
\* write and the mirror write of page k have both finished; at no point is
\* more than one fetched page awaiting processing.
C16_OnePageAtATime ==
    /\ Len(run.yielded) - run.processed <= 1
    /\ Len(run.requested) - run.processed <= 1
    /\ run.pc = "fetch" => run.processed = Len(run.requested)

\* the last page of the largest feed is awaiting processing, the pages
\* before it having been written to the archive and to the mirror
C16_Witness ==
    /\ run.pc = "process" /\ run.page = MaxPages
    /\ run.processed = MaxPages - 1
    /\ rtm_lmp_api # EmptyTable /\ mirror_rtm_lmp # {}

----------------------------------------------------------------------------
(* The start date of a DAM run *)

\* C17: when the DAM scraper is given an explicit start date, the run resumes
\* from that date, and neither the maximum time of the archive nor that of
\* the mirror is queried or used, whatever they contain.
C17_ExplicitStartDate ==
    TsTruthy(dam_run.arg) =>
        /\ ~dam_run.queried_archive
        /\ ~dam_run.queried_mirror
        /\ dam_run.failed_in # "init" => dam_run.start_date = dam_run.arg

\* a run given a start date is fetching while the archive and the mirror
\* both hold data of earlier runs
C17_Witness ==
    /\ dam_run.pc = "fetch"
    /\ TsTruthy(dam_run.arg)
    /\ dam_lmp # EmptyTable /\ mirror_dam_lmp # {}

DefaultLookback == Naive(UtcNow - 7 * 86400)

----------------------------------------------------------------------------
(* The conversions of the raw writers *)

\* C19: for every delivery date d and every hour ending h from 01:00 to
\* 24:00, write_dam_lmp_raw stores the row at d + (h - 1) hours of local
\* time, shifted to UTC by the fixed 6 hours: 01:00 is local 00:00 and 24:00
\* is local 23:00 of the delivery date.
C19_HourEndingConversion ==
    (conv.op = "hour" /\ conv.at[2] \in 1..24) =>
        /\ Cardinality(conv.rows) = 1
        /\ \A r \in conv.rows :
              r.time = Naive(Midnight(conv.at[1]) + (conv.at[2] - 1) * 3600 + 6 * 3600)

\* the record of hour ending 24:00 of the last day has been stored
C19_Witness ==
    /\ conv.op = "hour" /\ conv.at = <<MaxDay, 24>>
    /\ conv.rows # {}

\* C20: for every raw timestamp t, write_rtm_lmp_raw stores the row at the
\* greatest 5-minute boundary that is <= t (12:03:47 at 12:00:00, 12:07:00 at
\* 12:05:00); a time already on a 5-minute boundary is stored unchanged, and
\* flooring a floored time changes nothing.
C20_FiveMinuteFloor ==
    conv.op = "floor" =>
        /\ Cardinality(conv.rows) = 1
        /\ \A r \in conv.rows :
              /\ r.time.s % 300 = 0
              /\ r.time.s <= conv.at[1] /\ conv.at[1] < r.time.s + 300
              /\ Floor5(r.time) = r.time

\* the record stamped 12:03:47 has been stored at 12:00:00
C20_Witness ==
    /\ conv.op = "floor" /\ conv.at = <<Clock(12, 3, 47)>>
    /\ \E r \in conv.rows : r.time.s = Clock(12, 0, 0)

----------------------------------------------------------------------------
(* Records that lack a required field *)

\* the record holds a timestamp, a settlement point and a price
RtmComplete(record) ==
    /\ TsTruthy(OrTs(record.SCEDTimestamp, record.scedTimestamp))
    /\ SpTruthy(OrSp(record.SettlementPoint, record.settlementPoint))
    /\ (record.LMP # None \/ record.lmp # None)

\* the record holds a delivery date, an hour ending, a settlement point and
\* a price
DamComplete(record) ==
    /\ TsTruthy(OrTs(record.DeliveryDate, record.deliveryDate))
    /\ HourTruthy(OrHour(record.HourEnding, record.hourEnding))
    /\ SpTruthy(OrSp(record.SettlementPoint, record.settlementPoint))
    /\ (record.SettlementPointPrice # None \/ record.settlementPointPrice # None)

\* C21: write_rtm_lmp_raw and write_dam_lmp_raw, and the mirror writers,
\* store nothing for a raw record in which the timestamp, the settlement
\* point or the price is absent: no stored row has an empty settlement point
\* or a price that was not in the record.
C21_IncompleteRecordSkipped ==
    /\ (conv.op = "rtm_raw" /\ ~RtmComplete(conv.at[1])) =>
          conv.rows = {} /\ conv.points = {}
    /\ (conv.op = "dam_raw" /\ ~DamComplete(conv.at[1])) =>
          conv.rows = {} /\ conv.points = {}

----------------------------------------------------------------------------
(* Writing a record whose key is stored *)

\* the rows of the batch decide the rows stored at their keys: the row of a
\* record that no later record of the batch shares its key with is stored, and
\* it is the only row of its key
LastWins(after, rowsets) ==
    \A i \in 1..Len(rowsets) : \A row \in rowsets[i] :
        (\A j \in (i + 1)..Len(rowsets) : \A later \in rowsets[j] : ~SameKey(later, row))
        => /\ row \in Rows(after) /\ after[row] = 1
           /\ \A r \in Rows(after) : SameKey(r, row) => r = row

\* C22: after write_rtm_lmp_raw or write_dam_lmp_raw writes a record whose
\* (time, settlement_point) key is stored already, every non-key field of the
\* stored row is the value of the new record and nothing of the previous row
\* survives; among several records of one batch with the same key, the last
\* in batch order determines the stored row.
C22_UpsertOverwrites ==
    /\ \A B \in RtmRawBatches :
          LastWins(write_rtm_lmp_raw(rtm_lmp_api, B).tbl,
                   [i \in 1..Len(B) |-> RtmRawRow(B[i])])
    /\ \A B \in DamRawBatches :
          LastWins(write_dam_lmp_raw(dam_lmp, B).tbl,
                   [i \in 1..Len(B) |-> DamRawRow(B[i])])

\* each table stores a row at a key that two records of one batch share, with
\* values that differ from each other and, for the last, from the stored row
C22_Witness ==
    /\ \E B \in RtmRawBatches : \E old \in Rows(rtm_lmp_api) :
          /\ Len(B) = 2
          /\ \E r1 \in RtmRawRow(B[1]), r2 \in RtmRawRow(B[2]) :
                SameKey(r1, r2) /\ SameKey(old, r2) /\ r1 # r2 /\ old # r2
    /\ \E B \in DamRawBatches : \E old \in Rows(dam_lmp) :
          /\ Len(B) = 2
          /\ \E r1 \in DamRawRow(B[1]), r2 \in DamRawRow(B[2]) :
                SameKey(r1, r2) /\ SameKey(old, r2) /\ r1 # r2 /\ old # r2

----------------------------------------------------------------------------
(* The mirror holds allow-listed settlement points only *)

----------------------------------------------------------------------------
(* Two overlapping runs *)

\* the archive table after one run has written the pages in order
RECURSIVE ArchiveAfter(_, _)
ArchiveAfter(tbl, pages) ==
    IF pages = <<>> THEN tbl
    ELSE ArchiveAfter(write_rtm_lmp_raw(tbl, Head(pages)).tbl, Tail(pages))

BothCompleted == \A i \in 1..2 : runs[i].pc = "exited" /\ runs[i].exit_code = 0

\* C24: when two runs of the RTM API feed that are served the same pages
\* (as many, with the same content) interleave in any way, page by page,
\* and both complete, the archive table
\* is the table a single run over those pages leaves: no duplicate row, no
\* lost row, no differing value.
C24_InterleavedRunsAsOne ==
    (BothCompleted /\ runs[1].page = runs[2].page) =>
        /\ rtm_lmp_api = ArchiveAfter(EmptyTable, SubSeq(upstream, 1, runs[1].page))
        /\ get_record_count(rtm_lmp_api) = Cardinality(Rows(rtm_lmp_api))

\* both runs have completed over the same two pages, whose records share a
\* key and differ in price
C24_Witness ==
    /\ BothCompleted
    /\ runs[1].page = 2 /\ runs[2].page = 2
    /\ Len(upstream) = 2
    /\ upstream[1] # <<>> /\ upstream[2] # <<>> /\ upstream[1] # upstream[2]

\* the later of two marker contents, an absent one being the least
LaterOf(a, b) == IF MarkerLeq(a, b) THEN b ELSE a

\* C25: when two RTM API runs overlap in time, the marker after both have
\* finished is the larger of the two runs' maximum observed timestamps: the
\* run that finishes later never replaces a newer checkpoint by an older one.
C25_MarkerIsLargerMaximum ==
    BothCompleted =>
        marker = LaterOf(runs[1].latest_timestamp, runs[2].latest_timestamp)

----------------------------------------------------------------------------
(* A page whose fetch fails *)

\* C26: when the fetch of page k fails fatally during a run, the rows that
\* pages 1..k-1 have committed stay as they are, the pages requested are
\* exactly 1..k (no page after k), and the run ends with a non-zero status.
C26_FetchFailureStopsRun ==
    [][(run.pc = "fetch" /\ run'.pc = "exited") =>
          /\ rtm_lmp_api' = rtm_lmp_api
          /\ mirror_rtm_lmp' = mirror_rtm_lmp
          /\ run'.exit_code # 0
          /\ run'.requested = UpTo(run.page)
          /\ run'.yielded = UpTo(run.page - 1)]_vars

\* the fetch of page 2 has failed after page 1 had stored rows
C26_Witness ==
    /\ run.pc = "exited" /\ run.failed_in = "fetch" /\ run.failed_page = 2
    /\ run.total_sqlite > 0
    /\ rtm_lmp_api # EmptyTable

----------------------------------------------------------------------------
(* A record that fails inside a batch *)

\* the records of the batch that were stored: those that gave a row
Stored(rowsets) == {i \in 1..Len(rowsets) : rowsets[i] # {}}

\* every record that gave a row is in the table, itself or replaced by a
\* later record of the batch with its key, and the count is their number
OthersStored(res, rowsets) ==
    /\ res.count = Cardinality(Stored(rowsets))
    /\ \A i \in Stored(rowsets) : \A row \in rowsets[i] :
          \/ row \in Rows(res.tbl)
          \/ \E j \in (i + 1)..Len(rowsets) : \E later \in rowsets[j] :
                SameKey(later, row) /\ later \in Rows(res.tbl)

\* C27: in write_rtm_lmp_raw and write_dam_lmp_raw a record whose conversion
\* or insertion fails does not keep the other records of its batch from being
\* stored and committed, and the returned count is the number of records of
\* the batch that were stored.
C27_FailedRecordContained ==
    /\ \A B \in RtmRawBatches :
          OthersStored(write_rtm_lmp_raw(rtm_lmp_api, B),
                       [i \in 1..Len(B) |-> RtmRawRow(B[i])])
    /\ \A B \in DamRawBatches :
          OthersStored(write_dam_lmp_raw(dam_lmp, B),
                       [i \in 1..Len(B) |-> DamRawRow(B[i])])

\* both tables hold rows, and for each a batch exists whose first record
\* fails in its conversion and whose second record changes the table
C27_Witness ==
    /\ rtm_lmp_api # EmptyTable
    /\ \E B \in RtmRawBatches :
          /\ Len(B) = 2
          /\ B[1].LMP = BadStr /\ RtmRawRow(B[1]) = {} /\ RtmRawRow(B[2]) # {}
          /\ write_rtm_lmp_raw(rtm_lmp_api, B).tbl # rtm_lmp_api
    /\ dam_lmp # EmptyTable
    /\ \E B \in DamRawBatches :
          /\ Len(B) = 2
          /\ B[1].HourEnding = HourText(25) /\ DamRawRow(B[1]) = {} /\ DamRawRow(B[2]) # {}
          /\ write_dam_lmp_raw(dam_lmp, B).tbl # dam_lmp

----------------------------------------------------------------------------
(* A mirror batch that is rate limited at every attempt *)

\* C28: when the mirror batch of a page exhausts its rate-limit retries, the
\* mirror write returns its partial count and does not raise: the page is in
\* the archive, the run goes on with the next page or to its end, and a run
\* that reaches its end saves the checkpoint and exits with status 0.
C28_RateLimitedMirrorIsNotFatal ==
    [][/\ (run.pc = "process" /\ run'.rate_limited = run.rate_limited + 1) =>
             /\ run'.pc \in {"fetch", "save"}
             /\ run'.pc = "fetch" <=> run.page < run.pages_to_fetch
             /\ run'.total_influx = run.total_influx
             /\ mirror_rtm_lmp' = mirror_rtm_lmp
             /\ rtm_lmp_api' = write_rtm_lmp_raw(rtm_lmp_api, run.page_data).tbl
             /\ run'.total_sqlite =
                  run.total_sqlite + write_rtm_lmp_raw(rtm_lmp_api, run.page_data).count
       /\ (run.pc = "save" /\ run.rate_limited > 0) =>
             /\ run'.pc = "exited" /\ run'.exit_code = 0
             /\ TsTruthy(run.latest_timestamp) => marker' = run.latest_timestamp]_vars

\* a run of two pages has exited with status 0 and saved its checkpoint: the
\* batch of one page was rate limited at every attempt, the batch of the
\* other page is in the mirror
C28_Witness ==
    /\ run.pc = "exited" /\ run.exit_code = 0
    /\ run.rate_limited = 1 /\ run.processed = 2 /\ run.total_influx > 0
    /\ run.total_sqlite > 0
    /\ TsTruthy(run.latest_timestamp) /\ marker = run.latest_timestamp

----------------------------------------------------------------------------
(* The retry loop of the mirror's batch writer *)

\* C29: _write_points_with_rate_limit writes each batch at most MAX_RETRIES
\* times; after a rate-limited attempt it waits RETRY_DELAY_SECONDS and tries
\* again, except after attempt MAX_RETRIES, where it returns at once; and
\* whatever the destination answers, a call that has started ends.
C29_BoundedRetries ==
    /\ [](writer.attempts <= MAX_RETRIES)
    /\ [][(writer.pc = "attempt" /\ writer'.last = "429") =>
            IF writer.attempts + 1 < MAX_RETRIES
              THEN /\ writer'.sleeps = Append(writer.sleeps, RETRY_DELAY_SECONDS)
                   /\ writer'.pc = "attempt"
                   /\ writer'.attempts = writer.attempts + 1
                   /\ writer'.i = writer.i
              ELSE /\ writer'.sleeps = writer.sleeps
                   /\ writer'.pc = "returned"]_vars
    /\ (writer.pc = "attempt") ~> (writer.pc \in {"returned", "raised"})

\* the second batch of a call was rate limited MAX_RETRIES times: the call
\* waited twice for it and returned
C29_Witness ==
    /\ writer.pc = "returned" /\ writer.last = "429"
    /\ writer.i = BATCH_SIZE /\ writer.attempts = MAX_RETRIES
    /\ writer.sleeps = <<BATCH_DELAY_SECONDS, RETRY_DELAY_SECONDS, RETRY_DELAY_SECONDS>>
    /\ writer.total_written = BATCH_SIZE

----------------------------------------------------------------------------
(* The instant of a DAM record in the two sinks *)

\* C30: for every DAM record written to both sinks, the instant stored in
\* the mirror (measurement dam_lmp) is the instant stored in the archive
\* (table dam_lmp): the local instant delivery_date + (hour_ending - 1) hours
\* shifted to UTC by the same fixed offset of 6 hours.
C30_SameInstantInBothSinks ==
    (conv.op = "hour" /\ conv.at[2] \in 1..24) =>
        /\ conv.rows # {} /\ conv.points # {}
        /\ \A r \in conv.rows : \A p \in conv.points :
              /\ p.time = r.time.s
              /\ p.time = Midnight(conv.at[1]) + (conv.at[2] - 1) * 3600 + 6 * 3600

----------------------------------------------------------------------------
(* The times of the rows of rtm_lmp_api *)

\* the 5-minute interval a stored time falls into
Interval(time) == time.s \div 300

\* C31: after any sequence of writes into rtm_lmp_api through
\* write_rtm_lmp_raw and write_rtm_lmp_api, the time of every row lies on a
\* 5-minute boundary, so that the table holds at most one row for a
\* settlement point in a 5-minute interval.
C31_RowsOnFiveMinuteBoundary ==
    /\ \A r \in Rows(rtm_lmp_api) :
          r.time.k \in {"naive", "aware"} /\ r.time.s % 300 = 0
    /\ \A r1, r2 \in Rows(rtm_lmp_api) :
          (r1.settlement_point = r2.settlement_point
             /\ Interval(r1.time) = Interval(r2.time)) => r1 = r2

----------------------------------------------------------------------------
(* The start date of an RTM API run without a marker *)

\* the run has resolved its start date and has not asked for a page yet
JustStarted == run.pc = "fetch" /\ run.page = 1

\* C32: when the marker file is absent or unreadable and rtm_lmp_api holds
\* rows, the RTM API run resumes from the maximum stored time of the table;
\* the 7-day lookback is used only when the archive holds no time.
C32_ResumeFromArchive ==
    (JustStarted /\ ~TsTruthy(get_api_last_timestamp(run.marker0))) =>
        IF rtm_lmp_api # EmptyTable
          THEN run.start_date = get_last_time(rtm_lmp_api).value
          ELSE run.start_date = Naive(UtcNow - 7 * 86400)

----------------------------------------------------------------------------
(* The start date a DAM run derives from the archive *)

\* fetch_spp_day_ahead_hourly: from_date.strftime("%Y-%m-%d"), the day sent
\* as deliveryDateFrom
DeliveryDateFrom(from_date) == from_date.s \div 86400

\* the table that holds the rows of the last conversion
ConvTable == [r \in conv.rows |-> 1]

\* C33: the start date the next DAM run derives from the maximum stored time
\* of dam_lmp, as the day it sends as deliveryDateFrom, is not later than the
\* local delivery date of the row that holds the maximum, so no delivery hour
\* of that date is skipped.
C33_NoDeliveryHourSkipped ==
    (conv.op = "hour" /\ conv.rows # {}) =>
        DeliveryDateFrom(get_last_time(ConvTable).value) <= conv.at[1]

----------------------------------------------------------------------------
(* The realtime run and its two sinks *)

\* the run has ended after it fetched the page
RtEnded == rt_run.pc = "exited" /\ rt_run.fetched

\* the run left both sinks as it found them
RtWroteNothing ==
    /\ rtm_lmp_cdr = rt_run.cdr0
    /\ mirror_rtm_lmp_realtime = rt_run.mirror0

\* the instant of the snapshot the run parsed, in UTC
SnapshotUtc == cst_to_utc(rt_run.cst_timestamp).s

\* C34: a realtime run whose snapshot is newer than the newest point of the
\* mirror stores every parsed record in rtm_lmp_cdr at the snapshot's local
\* time plus 6 hours, writes the allow-listed records to the mirror at the
\* same time, and exits with status 0.
C34_NewerSnapshotStored ==
    (/\ RtEnded /\ TsTruthy(rt_run.cst_timestamp) /\ rt_run.records # <<>>
     /\ rt_run.mirror0 # {}
     /\ \A pt \in rt_run.mirror0 : SnapshotUtc > pt.time) =>
        /\ rt_run.exit_code = 0
        /\ \A i \in 1..Len(rt_run.records) :
              \E r \in Rows(rtm_lmp_cdr) :
                 /\ r.time = Naive(SnapshotUtc)
                 /\ r.settlement_point = rt_run.records[i].settlementPoint
        /\ \A i \in 1..Len(rt_run.records) :
              rt_run.records[i].settlementPoint \in INFLUXDB_SETTLEMENT_POINTS =>
                 \E pt \in mirror_rtm_lmp_realtime :
                    /\ pt.time = SnapshotUtc
                    /\ pt.settlement_point = rt_run.records[i].settlementPoint

\* C35: when the page yields no timestamp that can be parsed, the realtime
\* run writes nothing to the archive, nothing to the mirror, and ends with a
\* failure status.
C35_NoTimestampNoWrite ==
    (RtEnded /\ ~TsTruthy(rt_run.cst_timestamp)) =>
        /\ rt_run.exit_code = 1
        /\ ~rt_run.attempted
        /\ RtWroteNothing

\* a run ended on a page that had records and no readable label
C35_Witness ==
    /\ RtEnded /\ ~TsTruthy(rt_run.cst_timestamp)
    /\ rt_run.records # <<>>
    /\ rt_run.exit_code = 1

\* the run has compared its snapshot with the time the mirror reported, and
\* the snapshot is not newer
RtStale ==
    /\ TsTruthy(rt_run.utc_timestamp) /\ TsTruthy(rt_run.last_timestamp)
    /\ rt_run.utc_timestamp.s <= rt_run.last_timestamp.s

\* C38: a realtime run whose snapshot, in UTC, is not later than the newest
\* time of measurement rtm_lmp_realtime writes nothing to either sink and
\* exits with status 0; a write is attempted only when the snapshot is
\* strictly newer or the mirror reports no time.
C38_WriteOnlyWhenStrictlyNewer ==
    /\ RtStale => /\ rt_run.pc = "exited" /\ rt_run.exit_code = 0
                  /\ ~rt_run.attempted
                  /\ RtWroteNothing
    /\ (rt_run.pc = "write" \/ rt_run.attempted) =>
          \/ ~TsTruthy(rt_run.last_timestamp)
          \/ rt_run.utc_timestamp.s > rt_run.last_timestamp.s

\* a run ended with status 0 on a snapshot as old as the newest point
C38_Witness ==
    /\ RtEnded /\ RtStale /\ rt_run.exit_code = 0
    /\ rt_run.utc_timestamp.s = rt_run.last_timestamp.s

----------------------------------------------------------------------------
(* The records RTMLMPParser emits *)

\* the tdLeft cells of a row, cells without text included
LeftCells(row) == SelectSeq(row, LAMBDA c : IsTdLeft(c.class))

\* the records the rule allows for one row: one for a row with at least two
\* tdLeft cells, a non-empty first cell other than the header text and a
\* numeric second cell; none for any other row
Emitted(row) ==
    LET cells == LeftCells(row)
    IN  IF /\ Len(cells) >= 2
           /\ Strip(cells[1].text) \notin {"", "Settlement Point"}
           /\ Strip(cells[2].text) \in DOMAIN Numerals
          THEN <<CdrRecord(Strip(cells[1].text), Numerals[Strip(cells[2].text)])>>
          ELSE <<>>

RECURSIVE EmittedAll(_)
EmittedAll(rows) ==
    IF rows = <<>> THEN <<>> ELSE Emitted(Head(rows)) \o EmittedAll(Tail(rows))

\* C36: for any sequence of table rows, RTMLMPParser emits exactly one record
\* for each row with at least two tdLeft cells, a non-empty first cell other
\* than the header text and a numeric second cell, and nothing for any other
\* row; a skipped row changes neither the records of the rows before it nor
\* those of the rows after it.
C36_OneRecordPerGoodRow ==
    /\ parser.records = EmittedAll(parser.rows)
    /\ parser.current_row = <<>>

----------------------------------------------------------------------------
(* The numeric cells of a response *)

\* C39: parse_response_data maps every non-null DOUBLE or INTEGER cell to its
\* numeric value (a cell holding 0 becomes 0.0) and produces None only for a
\* null cell or a cell the row does not have; every record has exactly one
\* key per field definition.
C39_NumericCellsKept ==
    conv.op = "parse" =>
        LET fields == conv.at[1]
            row == conv.at[2]
        IN  \A record \in conv.rows :
              /\ DOMAIN record = {fields[i].name : i \in 1..Len(fields)}
              /\ \A i \in 1..Len(fields) :
                    fields[i].dataType \in {"DOUBLE", "INTEGER"} =>
                       IF CellOf(row, i) = None
                         THEN record[fields[i].name] = None
                         ELSE record[fields[i].name] = CellOf(row, i)

----------------------------------------------------------------------------
(* The totals a run reports *)

\* C37: every ingestion run, also one that ends in a fatal error after some
\* pages were written, reports the number of records written to each sink
\* before it exits.
C37_TotalsReported ==
    (run.pc = "exited" /\ run.total_sqlite > 0) =>
        run.reported = <<run.total_sqlite, run.total_influx>>

----------------------------------------------------------------------------
(* The count _write_points_with_rate_limit returns *)

\* the number of points of batch k of a call over n points
SizeOfBatch(k, n) ==
    IF k * BATCH_SIZE <= n THEN BATCH_SIZE ELSE n - (k - 1) * BATCH_SIZE

RECURSIVE SizeOfWritten(_, _)
SizeOfWritten(batches, n) ==
    IF batches = <<>> THEN 0
    ELSE SizeOfWritten(SubSeq(batches, 1, Len(batches) - 1), n)
           + (IF batches[Len(batches)] = "written" THEN SizeOfBatch(Len(batches), n) ELSE 0)

\* C40: the count _write_points_with_rate_limit returns is the total size of
\* the batches whose write succeeded, and those batches are a prefix of the
\* batch sequence: once a batch is abandoned after its retries, no later
\* batch of the call is attempted.
C40_CountIsWrittenPrefix ==
    /\ writer.total_written = SizeOfWritten(writer.batches, writer.total_points)
    /\ \A k \in 1..Len(writer.batches) :
          writer.batches[k] = "abandoned" =>
             /\ k = Len(writer.batches)
             /\ writer.pc = "returned"
             /\ \A j \in 1..(k - 1) : writer.batches[j] = "written"

\* a call returned after it wrote a batch and abandoned the next one, with
\* points of a later batch left over
C40_Witness ==
    /\ writer.pc = "returned"
    /\ writer.total_written > 0
    /\ writer.batches[Len(writer.batches)] = "abandoned"
    /\ Len(writer.batches) * BATCH_SIZE < writer.total_points

====
